---- MODULE Spec2Model ----
(***************************************************************************)
(* Colorado LIHTC map module (js/co-lihtc-map.js).                         *)
(*                                                                         *)
(* The file holds two copies of the module: copy "A" (lines 17-537, the    *)
(* overlay chain tryLoadOverlay, no embedded data) and copy "B" (lines     *)
(* 544-1032, the overlay chain tryLoadFromAPI with the embedded FALLBACK_* *)
(* collections).  The variable `variant` says which copy the page runs.    *)
(*                                                                         *)
(* Numbers: a coordinate is an integer number of ten-thousandths of a      *)
(* degree (Scale), so -104.9903 is -1049903 and the bound -109.5 is        *)
(* -1095000.  A feature collection is a run-length encoded sequence of     *)
(* features: <<[f |-> x, n |-> 1000]>> is a page of 1000 features x.       *)
(*                                                                         *)
(* The other scripts of the site are modelled on the document `doc`:       *)
(* js/navigation.js (SpecNav), the root shim that loads it (SpecShim), the *)
(* FRED cards read from data/fred-data.json (SpecFred); and                *)
(* getWorkingVintage of js/census-geo.js on `gv` (SpecVintage).            *)
(***************************************************************************)
EXTENDS Integers, Sequences, FiniteSets, TLC

VARIABLES variant, coBounds, bnd, ipc, onMap, chk, q, chain, places, lihtc, ov,
          unhandled, embedded, gv, hz, doc

vars ==
  <<variant, coBounds, bnd, ipc, onMap, chk, q, chain, places, lihtc, ov,
    unhandled, embedded, gv, hz, doc>>

(* ------------------------------------------------------------------ *)
(* Program constants                                                  *)
(* ------------------------------------------------------------------ *)

\* const PAGE = 1000
PAGE == 1000

\* if (pages > 150) break; // hard guard
HardGuard == 150

\* ten-thousandths of a degree per degree (the finest grain of the embedded data)
Scale == 10000

(* ------------------------------------------------------------------ *)
(* Bounds of the model                                                *)
(* ------------------------------------------------------------------ *)

\* size of a page that is shorter than PAGE
ShortPage == 400

\* the honest service of the pagination harness holds at most MaxFull full pages
MaxFull == 152

\* in the page model a service answers at most this many page requests of one
\* query with a page that makes arcgisQuery go on
MaxSvcPages == 2

\* vertices per geometry drawn by the bounding-box harness
MaxVerts == 2

\* rows of the largest table the Census API answers, the header row included
MaxTable == 2

\* children of <body> in the pages navigation.js is loaded in
MaxBody == 2

\* executions of one script in one document
MaxLoads == 3

\* observations of the longest series of the FRED cache
MaxObs == 14

\* the count of the starts of an overlay's load chain stops here
MaxStarts == 2

(* ------------------------------------------------------------------ *)
(* Features and collections                                           *)
(* ------------------------------------------------------------------ *)

Feat(id, gtype, coords, qct, dda) ==
  [id |-> id, gtype |-> gtype, coords |-> coords, qct |-> qct, dda |-> dda]

Run(f, n) == [f |-> f, n |-> n]

RECURSIVE Count(_)
\* features.length
Count(runs) ==
  IF runs = <<>> THEN 0 ELSE Head(runs).n + Count(Tail(runs))

PushFront(all, feats) == feats \o all

PushTwice(all, feats) == all \o feats \o feats

\* all.features.push(...feats): feats appended after all, adjacent runs of the
\* same feature written as one run
Push(all, feats) ==
  IF all = <<>> THEN feats
  ELSE IF feats = <<>> THEN all
  ELSE IF all[Len(all)].f = Head(feats).f
       THEN SubSeq(all, 1, Len(all) - 1)
              \o <<Run(Head(feats).f, all[Len(all)].n + Head(feats).n)>>
              \o Tail(feats)
       ELSE all \o feats

(* ------------------------------------------------------------------ *)
(* JSON.stringify(coordinates) and the regular expression of the      *)
(* client-side bounding-box filter                                    *)
(* ------------------------------------------------------------------ *)

DigitChars == <<"0", "1", "2", "3", "4", "5", "6", "7", "8", "9">>

IsDigit(c) == \E d \in 1..10 : DigitChars[d] = c

DigitVal(c) == (CHOOSE d \in 1..10 : DigitChars[d] = c) - 1

RECURSIVE Digits(_)
\* decimal digits of a natural number, most significant first
Digits(n) ==
  IF n < 10 THEN <<DigitChars[n + 1]>>
  ELSE Digits(n \div 10) \o <<DigitChars[(n % 10) + 1]>>

RECURSIVE StripZeros(_)
\* a fraction is written without its trailing zeros
StripZeros(s) ==
  IF s = <<>> THEN s
  ELSE IF s[Len(s)] = "0" THEN StripZeros(SubSeq(s, 1, Len(s) - 1))
  ELSE s

\* the four digits of the fraction fp / Scale
FracDigits(fp) ==
  <<DigitChars[(fp \div 1000) + 1], DigitChars[((fp \div 100) % 10) + 1],
    DigitChars[((fp \div 10) % 10) + 1], DigitChars[(fp % 10) + 1]>>

\* JSON.stringify of the number v / Scale, as a sequence of characters
NumStr(v) ==
  LET a    == IF v < 0 THEN 0 - v ELSE v
      frac == StripZeros(FracDigits(a % Scale))
  IN  (IF v < 0 THEN <<"-">> ELSE <<>>)
        \o Digits(a \div Scale)
        \o (IF frac = <<>> THEN <<>> ELSE <<".">> \o frac)

\* JSON.stringify of one position [lng,lat]
PairStr(p) == <<"[">> \o NumStr(p[1]) \o <<",">> \o NumStr(p[2]) \o <<"]">>

RECURSIVE PairsStr(_)
\* the positions of a ring, separated by commas
PairsStr(ps) ==
  IF ps = <<>> THEN <<>>
  ELSE IF Len(ps) = 1 THEN PairStr(ps[1])
  ELSE PairStr(ps[1]) \o <<",">> \o PairsStr(Tail(ps))

\* JSON.stringify(f.geometry.coordinates): a Point is one position, a Polygon
\* an array of rings (one ring here), a MultiPolygon an array of polygons (one
\* polygon of one ring here)
CoordsStr(f) ==
  IF f.gtype = "Point" THEN PairStr(f.coords[1])
  ELSE IF f.gtype = "Polygon"
       THEN <<"[", "[">> \o PairsStr(f.coords) \o <<"]", "]">>
       ELSE <<"[", "[", "[">> \o PairsStr(f.coords) \o <<"]", "]", "]">>

RECURSIVE DigitRun(_, _)
\* length of the longest run of digits of s that starts at position i
DigitRun(s, i) ==
  IF i > Len(s) THEN 0
  ELSE IF IsDigit(s[i]) THEN 1 + DigitRun(s, i + 1)
  ELSE 0

\* /-?\d+\.?\d+/ tried at position i of s: the position after the match, or 0.
\* \d+ takes the a digits at j; then either "." and b >= 1 digits follow, or
\* the second \d+ takes back the last of the a digits, which needs a >= 2.
MatchEnd(s, i) ==
  LET j == IF s[i] = "-" THEN i + 1 ELSE i
      a == DigitRun(s, j)
      k == j + a
      b == IF k <= Len(s) /\ s[k] = "." THEN DigitRun(s, k + 1) ELSE 0
  IN  IF a = 0 THEN 0
      ELSE IF b >= 1 THEN k + 1 + b
      ELSE IF a >= 2 THEN k
      ELSE 0

RECURSIVE NatOf(_)
NatOf(ds) ==
  IF ds = <<>> THEN 0
  ELSE 10 * NatOf(SubSeq(ds, 1, Len(ds) - 1)) + DigitVal(ds[Len(ds)])

\* the fraction digits ds as a number of 1 / Scale (ds has at most 4 digits)
FracOf(ds) ==
  IF Len(ds) = 0 THEN 0
  ELSE IF Len(ds) = 1 THEN 1000 * NatOf(ds)
  ELSE IF Len(ds) = 2 THEN 100 * NatOf(ds)
  ELSE IF Len(ds) = 3 THEN 10 * NatOf(ds)
  ELSE NatOf(SubSeq(ds, 1, 4))

\* Number(token), times Scale
NumberOf(tok) ==
  LET neg  == tok[1] = "-"
      body == IF neg THEN Tail(tok) ELSE tok
      a    == DigitRun(body, 1)
      ip   == NatOf(SubSeq(body, 1, a))
      fp   == IF a < Len(body) THEN FracOf(SubSeq(body, a + 2, Len(body))) ELSE 0
      v    == ip * Scale + fp
  IN  IF neg THEN 0 - v ELSE v

RECURSIVE MatchAll(_, _)
\* str.match(/-?\d+\.?\d+/g)?.map(Number) || [] : the matches from position i
\* on, left to right, none overlapping
MatchAll(s, i) ==
  IF i > Len(s) THEN <<>>
  ELSE LET e == MatchEnd(s, i)
       IN  IF e = 0 THEN MatchAll(s, i + 1)
           ELSE <<NumberOf(SubSeq(s, i, e - 1))>> \o MatchAll(s, e)

Flat(f) == MatchAll(CoordsStr(f), 1)

\* copy A: lng > -109.5 && lng < -102 && lat > 36.8 && lat < 41.2
InBoxA(lng, lat) ==
  lng > -1095000 /\ lng < -1020000 /\ lat > 368000 /\ lat < 412000

\* copy B: flat[i]>-110 && flat[i]<-102 && flat[i+1]>36.5 && flat[i+1]<41.5
InBoxB(lng, lat) ==
  lng > -1100000 /\ lng < -1020000 /\ lat > 365000 /\ lat < 415000

InBox(v, lng, lat) == IF v = "A" THEN InBoxA(lng, lat) ELSE InBoxB(lng, lat)

\* for (let i = 0; i < flat.length - 1; i += 2) if (inside(flat[i], flat[i+1])) return true;
\* return false
AnyPairInBox(v, flat) ==
  \E i \in 0..(Len(flat) - 2) : i % 2 = 0 /\ InBox(v, flat[i + 1], flat[i + 2])

\* the predicate of features.filter(...) of copy v
KeepFeature(v, f) ==
  IF f.gtype = "none" THEN FALSE
  ELSE AnyPairInBox(v, Flat(f))

\* features.filter(...) over a collection
BBoxFilter(v, runs) == SelectSeq(runs, LAMBDA r : KeepFeature(v, r.f))

(* ------------------------------------------------------------------ *)
(* fetchJSON and arcgisQuery                                          *)
(* ------------------------------------------------------------------ *)

\* What the network gives for one request: kind "ok" is a 2xx answer whose
\* body parses as JSON; "http" a non-ok status, "net" a rejected fetch (an
\* abort by the 12 s timer of copy B included), "json" a body res.json()
\* rejects.
Resp(kind, hasFeatures, feats, top, nested) ==
  [kind |-> kind, hasFeatures |-> hasFeatures, feats |-> feats,
   top |-> top, nested |-> nested]

FailKinds == {"http", "net", "json"}

\* fetchJSON throws: fetch rejects, or !res.ok, or res.json() rejects
fetchJSONThrows(resp) == resp.kind \in FailKinds

\* const feats = gj && Array.isArray(gj.features) ? gj.features : []
FeatsOf(resp) == IF resp.hasFeatures THEN resp.feats ELSE <<>>

ExceededTopOnly(resp) == resp.top

\* const exceeded = !!(gj.exceededTransferLimit ||
\*                     (gj.properties && gj.properties.exceededTransferLimit))
Exceeded(resp) == resp.top \/ resp.nested

\* if (!exceeded && feats.length < PAGE) break
LastPage(exceeded, n) == ~exceeded /\ n < PAGE

\* offset += PAGE
NextOffset(offset) == offset + PAGE

\* if (pages > 150) break
GuardHit(pages) == pages > HardGuard

\* One arcgisQuery call.  st: "idle" no call, "wait" a page request is in
\* flight, "done" the call has returned.  offset, pages and all are the
\* locals of the function; reqs lists the resultOffset of every request
\* issued, got sums the sizes of the pages that arrived, failed says that a
\* page request failed, outcome how the promise of the call settled.
QIdle ==
  [st |-> "idle", url |-> "", where |-> "", offset |-> 0, pages |-> 0,
   all |-> <<>>, reqs |-> <<>>, got |-> 0, failed |-> FALSE,
   outcome |-> "pending"]

\* arcgisQuery(layerUrl, where, ...) up to its first await: the locals are
\* set and the request for offset 0 is issued
arcgisQueryCall(url, where) ==
  [QIdle EXCEPT !.st = "wait", !.url = url, !.where = where, !.reqs = <<0>>]

AqReturnRejectOnFailure(qr, all) ==
  [qr EXCEPT !.st = "done", !.all = all,
             !.outcome = IF qr.failed THEN "rejected" ELSE "resolved"]

\* return all
AqReturn(qr, all) ==
  [qr EXCEPT !.st = "done", !.all = all, !.outcome = "resolved"]

\* arcgisQuery from the arrival of the answer to a page request up to the next
\* await or the return
arcgisQueryResume(qr, resp) ==
  IF fetchJSONThrows(resp)
  THEN \* catch (e) { console.warn(...); break; }
       AqReturn([qr EXCEPT !.failed = TRUE], qr.all)
  ELSE LET feats == FeatsOf(resp)
           q1    == [qr EXCEPT !.got = qr.got + Count(feats)]
       IN  IF Count(feats) = 0 THEN AqReturn(q1, qr.all)
           ELSE LET all1 == Push(qr.all, feats)
                IN  IF LastPage(Exceeded(resp), Count(feats))
                    THEN AqReturn(q1, all1)
                    ELSE LET off1   == NextOffset(qr.offset)
                             pages1 == qr.pages + 1
                             q2     == [q1 EXCEPT !.offset = off1,
                                                  !.pages = pages1,
                                                  !.all = all1]
                         IN  IF GuardHit(pages1) THEN AqReturn(q2, all1)
                             ELSE [q2 EXCEPT !.reqs = Append(qr.reqs, off1)]

(* ------------------------------------------------------------------ *)
(* Configuration of the page                                          *)
(* ------------------------------------------------------------------ *)

Overlays == {"QCT", "DDA"}

Callers == {"places", "lihtc", "QCT", "DDA", "harness"}

CO_PLACES_URL == "CO_PLACES_URL"

HUD_LIHTC_LAYER == "HUD_LIHTC_LAYER"

BASEMAP_PLACES_URL == "Colorado_State_Basemap/MapServer/34"

\* QCT_LAYER, DDA_LAYER
PrimaryUrl(o) == IF o = "QCT" THEN "QCT_LAYER" ELSE "DDA_LAYER"

\* tryLoadOverlay: const filters = [stateFilter, ..., "1=1"], stateFilter as
\* ensureQCT and ensureDDA pass it
FiltersA ==
  <<"(STATEFP='08') OR (STATEFP10='08') OR (STATE='08')",
    "(STATE_ABBR='CO')",
    "(STATE='CO')",
    "(STUSAB='CO')",
    "(STATEFP='08') OR (STATEFP10='08') OR (STATEFP20='08')",
    "1=1">>

\* tryLoadFromAPI: const filters = [coWhere, ..., "1=1"], coWhere "STATEFP='08'"
FiltersB ==
  <<"STATEFP='08'", "STATE_ABBR='CO'", "STATE='CO'", "STUSAB='CO'",
    "STATEFP='08'", "1=1">>

Filters(v) == IF v = "A" THEN FiltersA ELSE FiltersB

\* what resolveItemUrl gives tryLoadOverlay: "fail" the request failed, "none"
\* info.url is missing, "same" the item resolves to the primary URL, "new" to
\* another service
ResolveOutcomes == {"fail", "none", "same", "new"}

\* const urls = [primaryUrl]; ... urls.push(resolved + '/0', resolved)
UrlsAfterResolve(o, outcome) ==
  IF outcome = "new" THEN <<PrimaryUrl(o), "resolved/0", "resolved">>
  ELSE <<PrimaryUrl(o)>>

(* ------------------------------------------------------------------ *)
(* The harnesses' record                                              *)
(* ------------------------------------------------------------------ *)

NoLast == [kind |-> "none", n |-> 0, top |-> FALSE, nested |-> FALSE]

\* what a harness keeps of an answer: its kind, the number of features
\* arcgisQuery reads from it, and the two places of exceededTransferLimit
LastOf(resp) ==
  [kind |-> resp.kind, n |-> Count(FeatsOf(resp)), top |-> resp.top,
   nested |-> resp.nested]

NoFeat == Feat("", "none", <<>>, FALSE, FALSE)

\* hz is written by the harnesses only: total is the number of features the
\* service of the pagination harness holds (-1: a service that answers
\* anything), last its latest answer; feat is the feature the bounding-box
\* harness hands to the filter and kept what the filter said
HzNone ==
  [mode |-> "page", total |-> -1, last |-> NoLast, feat |-> NoFeat, kept |-> "?"]


\* doc is the document of the pages the other scripts run in (navigation.js,
\* the root shim, the FRED cards); the map page and its harnesses leave it
\* alone
DocNone == [page |-> "map"]
(* ------------------------------------------------------------------ *)
(* The embedded collections of copy B                                 *)
(* ------------------------------------------------------------------ *)

FALLBACK_LIHTC ==
  <<
    Run(Feat("Lincoln Park Apartments", "Point", <<<<-1049903, 397392>>>>, TRUE, FALSE), 1),
    Run(Feat("Curtis Park Lofts", "Point", <<<<-1049748, 397519>>>>, TRUE, FALSE), 1),
    Run(Feat("Baker Senior Residences", "Point", <<<<-1049875, 397281>>>>, TRUE, FALSE), 1),
    Run(Feat("Five Points Commons", "Point", <<<<-1049620, 397617>>>>, TRUE, FALSE), 1),
    Run(Feat("Sun Valley Senior Housing", "Point", <<<<-1049540, 396934>>>>, TRUE, FALSE), 1),
    Run(Feat("Highland Gardens", "Point", <<<<-1049980, 397545>>>>, FALSE, TRUE), 1),
    Run(Feat("Globeville Flats", "Point", <<<<-1049722, 397755>>>>, TRUE, TRUE), 1),
    Run(Feat("Elyria-Swansea Homes", "Point", <<<<-1049461, 397394>>>>, TRUE, FALSE), 1),
    Run(Feat("Montbello Seniors", "Point", <<<<-1049310, 396890>>>>, TRUE, FALSE), 1),
    Run(Feat("Aurora Family Commons", "Point", <<<<-1048851, 396784>>>>, FALSE, TRUE), 1),
    Run(Feat("Aurora Senior Village", "Point", <<<<-1048325, 396950>>>>, TRUE, FALSE), 1),
    Run(Feat("Peoria Crossing", "Point", <<<<-1048629, 397145>>>>, FALSE, TRUE), 1),
    Run(Feat("Thornton Gardens", "Point", <<<<-1049921, 398370>>>>, FALSE, TRUE), 1),
    Run(Feat("Westminster Commons", "Point", <<<<-1050022, 398562>>>>, TRUE, FALSE), 1),
    Run(Feat("Brighton Family Flats", "Point", <<<<-1049530, 398895>>>>, FALSE, TRUE), 1),
    Run(Feat("Lakewood Pointe", "Point", <<<<-1050866, 396430>>>>, FALSE, TRUE), 1),
    Run(Feat("Arvada Senior Housing", "Point", <<<<-1051022, 397531>>>>, FALSE, TRUE), 1),
    Run(Feat("Broomfield Crossings", "Point", <<<<-1050749, 399028>>>>, FALSE, TRUE), 1),
    Run(Feat("Boulder Commons", "Point", <<<<-1052705, 400150>>>>, FALSE, TRUE), 1),
    Run(Feat("Longmont Family Apts", "Point", <<<<-1051019, 400659>>>>, TRUE, FALSE), 1),
    Run(Feat("Springs Family Village", "Point", <<<<-1048214, 388339>>>>, TRUE, FALSE), 1),
    Run(Feat("Pikes Peak Seniors", "Point", <<<<-1048614, 388658>>>>, TRUE, FALSE), 1),
    Run(Feat("Fountain Meadows", "Point", <<<<-1047981, 387826>>>>, FALSE, FALSE), 1),
    Run(Feat("Northgate Apts", "Point", <<<<-1049044, 389271>>>>, FALSE, FALSE), 1),
    Run(Feat("Fort Collins Commons", "Point", <<<<-1050844, 405853>>>>, FALSE, TRUE), 1),
    Run(Feat("Loveland Senior Village", "Point", <<<<-1051400, 403772>>>>, FALSE, FALSE), 1),
    Run(Feat("Greeley Flats", "Point", <<<<-1046914, 404233>>>>, TRUE, FALSE), 1),
    Run(Feat("Evans Gardens", "Point", <<<<-1047099, 403945>>>>, TRUE, FALSE), 1),
    Run(Feat("Pueblo Senior Manor", "Point", <<<<-1046091, 382544>>>>, TRUE, FALSE), 1),
    Run(Feat("Belmont Apts", "Point", <<<<-1045920, 382740>>>>, TRUE, FALSE), 1),
    Run(Feat("Grand Junction Crossroads", "Point", <<<<-1085506, 390639>>>>, TRUE, FALSE), 1),
    Run(Feat("Mesa Senior Commons", "Point", <<<<-1084748, 390877>>>>, FALSE, FALSE), 1),
    Run(Feat("Eagle Valley Workforce Housing", "Point", <<<<-1068317, 396433>>>>, FALSE, TRUE), 1),
    Run(Feat("Summit County Workforce Apts", "Point", <<<<-1063742, 395505>>>>, FALSE, TRUE), 1),
    Run(Feat("Rifle Family Residences", "Point", <<<<-1073317, 395430>>>>, FALSE, FALSE), 1),
    Run(Feat("Glenwood Commons", "Point", <<<<-1076723, 395480>>>>, FALSE, TRUE), 1),
    Run(Feat("Steamboat Affordable Homes", "Point", <<<<-1068317, 404850>>>>, FALSE, TRUE), 1),
    Run(Feat("Craig Senior Apts", "Point", <<<<-1078659, 406133>>>>, FALSE, FALSE), 1),
    Run(Feat("Montrose Family Flats", "Point", <<<<-1078762, 384783>>>>, FALSE, FALSE), 1),
    Run(Feat("Delta Commons", "Point", <<<<-1078625, 387415>>>>, FALSE, FALSE), 1),
    Run(Feat("Gunnison Workforce Housing", "Point", <<<<-1069245, 385458>>>>, FALSE, FALSE), 1),
    Run(Feat("Canon City Senior Village", "Point", <<<<-1052422, 384408>>>>, TRUE, FALSE), 1),
    Run(Feat("Alamosa Gardens", "Point", <<<<-1058697, 374694>>>>, TRUE, FALSE), 1),
    Run(Feat("Durango Commons", "Point", <<<<-1078801, 372753>>>>, FALSE, TRUE), 1),
    Run(Feat("Cortez Affordable Housing", "Point", <<<<-1085847, 373489>>>>, FALSE, FALSE), 1),
    Run(Feat("Englewood Seniors", "Point", <<<<-1050178, 396462>>>>, TRUE, FALSE), 1),
    Run(Feat("Centennial Crossings", "Point", <<<<-1049671, 396298>>>>, FALSE, TRUE), 1),
    Run(Feat("Littleton Family Homes", "Point", <<<<-1049900, 395911>>>>, FALSE, TRUE), 1),
    Run(Feat("Northglenn Apartments", "Point", <<<<-1049611, 399050>>>>, FALSE, TRUE), 1),
    Run(Feat("Federal Heights Housing", "Point", <<<<-1050198, 398100>>>>, TRUE, FALSE), 1),
    Run(Feat("Morgan County Homes", "Point", <<<<-1038022, 401844>>>>, TRUE, FALSE), 1),
    Run(Feat("Sterling Housing", "Point", <<<<-1026185, 401675>>>>, TRUE, FALSE), 1),
    Run(Feat("Trinidad Senior Homes", "Point", <<<<-1035536, 373536>>>>, TRUE, FALSE), 1),
    Run(Feat("Telluride Workforce Apts", "Point", <<<<-1075017, 379472>>>>, FALSE, TRUE), 1),
    Run(Feat("Basalt Workforce Village", "Point", <<<<-1068233, 391839>>>>, FALSE, TRUE), 1),
    Run(Feat("Silverthorne Commons", "Point", <<<<-1063203, 395130>>>>, FALSE, TRUE), 1),
    Run(Feat("Estes Park Workforce", "Point", <<<<-1056867, 403958>>>>, FALSE, TRUE), 1),
    Run(Feat("Windsor Senior Villas", "Point", <<<<-1048914, 405256>>>>, FALSE, TRUE), 1),
    Run(Feat("Greeley North Commons", "Point", <<<<-1046897, 403736>>>>, TRUE, FALSE), 1),
    Run(Feat("Monte Vista Senior Homes", "Point", <<<<-1058697, 374694>>>>, TRUE, FALSE), 1),
    Run(Feat("Towaoc Tribal Housing", "Point", <<<<-1080736, 371523>>>>, TRUE, FALSE), 1),
    Run(Feat("Walsenburg Commons", "Point", <<<<-1041614, 371895>>>>, TRUE, FALSE), 1),
    Run(Feat("Conejos County Housing", "Point", <<<<-1053322, 374781>>>>, TRUE, FALSE), 1),
    Run(Feat("Peyton Rural Homes", "Point", <<<<-1047629, 386785>>>>, FALSE, FALSE), 1),
    Run(Feat("La Veta Housing", "Point", <<<<-1054836, 376778>>>>, FALSE, FALSE), 1),
    Run(Feat("Limon Gateway Apts", "Point", <<<<-1032158, 395580>>>>, FALSE, FALSE), 1),
    Run(Feat("Yuma Senior Living", "Point", <<<<-1021231, 400133>>>>, FALSE, FALSE), 1),
    Run(Feat("Las Animas Apts", "Point", <<<<-1026024, 380961>>>>, TRUE, FALSE), 1),
    Run(Feat("Pueblo West Seniors", "Point", <<<<-1045916, 384036>>>>, FALSE, FALSE), 1),
    Run(Feat("South Park Housing", "Point", <<<<-1059764, 392340>>>>, FALSE, FALSE), 1),
    Run(Feat("Dacono Valley Apts", "Point", <<<<-1049703, 402586>>>>, FALSE, FALSE), 1),
    Run(Feat("Thornton East Village", "Point", <<<<-1050019, 399870>>>>, FALSE, TRUE), 1),
    Run(Feat("Capitol Hill Commons", "Point", <<<<-1049501, 397200>>>>, TRUE, FALSE), 1)
  >>

FALLBACK_QCT ==
  <<
    Run(Feat("Denver-Globeville QCT", "Polygon", <<<<-1050000, 397720>>, <<-1049400, 397720>>, <<-1049400, 397900>>, <<-1050000, 397900>>, <<-1050000, 397720>>>>, FALSE, FALSE), 1),
    Run(Feat("Denver-Five Points QCT", "Polygon", <<<<-1049820, 397450>>, <<-1049400, 397450>>, <<-1049400, 397680>>, <<-1049820, 397680>>, <<-1049820, 397450>>>>, FALSE, FALSE), 1),
    Run(Feat("Denver-Sun Valley QCT", "Polygon", <<<<-1050100, 397200>>, <<-1049750, 397200>>, <<-1049750, 397400>>, <<-1050100, 397400>>, <<-1050100, 397200>>>>, FALSE, FALSE), 1),
    Run(Feat("Denver-Montbello QCT", "Polygon", <<<<-1049550, 397600>>, <<-1049100, 397600>>, <<-1049100, 398100>>, <<-1049550, 398100>>, <<-1049550, 397600>>>>, FALSE, FALSE), 1),
    Run(Feat("Denver-Westwood QCT", "Polygon", <<<<-1050500, 396800>>, <<-1049950, 396800>>, <<-1049950, 397180>>, <<-1050500, 397180>>, <<-1050500, 396800>>>>, FALSE, FALSE), 1),
    Run(Feat("Denver-Villa Park QCT", "Polygon", <<<<-1050300, 397300>>, <<-1049950, 397300>>, <<-1049950, 397550>>, <<-1050300, 397550>>, <<-1050300, 397300>>>>, FALSE, FALSE), 1),
    Run(Feat("Denver-Barnum QCT", "Polygon", <<<<-1050430, 397000>>, <<-1050000, 397000>>, <<-1050000, 397250>>, <<-1050430, 397250>>, <<-1050430, 397000>>>>, FALSE, FALSE), 1),
    Run(Feat("Denver-Swansea QCT", "Polygon", <<<<-1049660, 397600>>, <<-1049300, 397600>>, <<-1049300, 397850>>, <<-1049660, 397850>>, <<-1049660, 397600>>>>, FALSE, FALSE), 1),
    Run(Feat("Denver-Capitol Hill QCT", "Polygon", <<<<-1049750, 397300>>, <<-1049400, 397300>>, <<-1049400, 397480>>, <<-1049750, 397480>>, <<-1049750, 397300>>>>, FALSE, FALSE), 1),
    Run(Feat("Aurora-Colfax QCT", "Polygon", <<<<-1049000, 397200>>, <<-1048400, 397200>>, <<-1048400, 397500>>, <<-1049000, 397500>>, <<-1049000, 397200>>>>, FALSE, FALSE), 1),
    Run(Feat("Aurora-East QCT", "Polygon", <<<<-1048400, 396860>>, <<-1047800, 396860>>, <<-1047800, 397100>>, <<-1048400, 397100>>, <<-1048400, 396860>>>>, FALSE, FALSE), 1),
    Run(Feat("Westminster Federal QCT", "Polygon", <<<<-1050400, 398430>>, <<-1049900, 398430>>, <<-1049900, 398680>>, <<-1050400, 398680>>, <<-1050400, 398430>>>>, FALSE, FALSE), 1),
    Run(Feat("Colorado Springs-Downtown QCT", "Polygon", <<<<-1048510, 388200>>, <<-1048000, 388200>>, <<-1048000, 388580>>, <<-1048510, 388580>>, <<-1048510, 388200>>>>, FALSE, FALSE), 1),
    Run(Feat("Colorado Springs-East QCT", "Polygon", <<<<-1048000, 388200>>, <<-1047300, 388200>>, <<-1047300, 388600>>, <<-1048000, 388600>>, <<-1048000, 388200>>>>, FALSE, FALSE), 1),
    Run(Feat("Pueblo-Downtown QCT", "Polygon", <<<<-1046350, 382380>>, <<-1045800, 382380>>, <<-1045800, 382780>>, <<-1046350, 382780>>, <<-1046350, 382380>>>>, FALSE, FALSE), 1),
    Run(Feat("Pueblo-North QCT", "Polygon", <<<<-1046400, 382780>>, <<-1045750, 382780>>, <<-1045750, 383100>>, <<-1046400, 383100>>, <<-1046400, 382780>>>>, FALSE, FALSE), 1),
    Run(Feat("Greeley QCT", "Polygon", <<<<-1047300, 404040>>, <<-1046700, 404040>>, <<-1046700, 404400>>, <<-1047300, 404400>>, <<-1047300, 404040>>>>, FALSE, FALSE), 1),
    Run(Feat("Evans QCT", "Polygon", <<<<-1047300, 403800>>, <<-1046800, 403800>>, <<-1046800, 404040>>, <<-1047300, 404040>>, <<-1047300, 403800>>>>, FALSE, FALSE), 1),
    Run(Feat("Longmont East QCT", "Polygon", <<<<-1051200, 401480>>, <<-1050700, 401480>>, <<-1050700, 401820>>, <<-1051200, 401820>>, <<-1051200, 401480>>>>, FALSE, FALSE), 1),
    Run(Feat("Grand Junction QCT", "Polygon", <<<<-1085900, 390480>>, <<-1085300, 390480>>, <<-1085300, 390850>>, <<-1085900, 390850>>, <<-1085900, 390480>>>>, FALSE, FALSE), 1),
    Run(Feat("Fort Morgan QCT", "Polygon", <<<<-1038400, 402440>>, <<-1037800, 402440>>, <<-1037800, 402720>>, <<-1038400, 402720>>, <<-1038400, 402440>>>>, FALSE, FALSE), 1),
    Run(Feat("Sterling QCT", "Polygon", <<<<-1032500, 405980>>, <<-1031950, 405980>>, <<-1031950, 406340>>, <<-1032500, 406340>>, <<-1032500, 405980>>>>, FALSE, FALSE), 1),
    Run(Feat("Alamosa QCT", "Polygon", <<<<-1059100, 374540>>, <<-1058480, 374540>>, <<-1058480, 374900>>, <<-1059100, 374900>>, <<-1059100, 374540>>>>, FALSE, FALSE), 1),
    Run(Feat("Trinidad QCT", "Polygon", <<<<-1045900, 371600>>, <<-1045200, 371600>>, <<-1045200, 371920>>, <<-1045900, 371920>>, <<-1045900, 371600>>>>, FALSE, FALSE), 1),
    Run(Feat("Walsenburg QCT", "Polygon", <<<<-1048050, 376200>>, <<-1047600, 376200>>, <<-1047600, 376450>>, <<-1048050, 376450>>, <<-1048050, 376200>>>>, FALSE, FALSE), 1),
    Run(Feat("Canon City QCT", "Polygon", <<<<-1052600, 384270>>, <<-1052000, 384270>>, <<-1052000, 384560>>, <<-1052600, 384560>>, <<-1052600, 384270>>>>, FALSE, FALSE), 1),
    Run(Feat("Las Animas QCT", "Polygon", <<<<-1032400, 380580>>, <<-1031800, 380580>>, <<-1031800, 380820>>, <<-1032400, 380820>>, <<-1032400, 380580>>>>, FALSE, FALSE), 1)
  >>

FALLBACK_DDA ==
  <<
    Run(Feat("Denver-Aurora Metro DDA", "Polygon", <<<<-1051500, 395500>>, <<-1046700, 395500>>, <<-1046700, 399800>>, <<-1051500, 399800>>, <<-1051500, 395500>>>>, FALSE, FALSE), 1),
    Run(Feat("Boulder-Broomfield DDA", "Polygon", <<<<-1053500, 399500>>, <<-1049800, 399500>>, <<-1049800, 401500>>, <<-1053500, 401500>>, <<-1053500, 399500>>>>, FALSE, FALSE), 1),
    Run(Feat("Fort Collins DDA", "Polygon", <<<<-1052000, 405200>>, <<-1049800, 405200>>, <<-1049800, 406600>>, <<-1052000, 406600>>, <<-1052000, 405200>>>>, FALSE, FALSE), 1),
    Run(Feat("Eagle County DDA", "Polygon", <<<<-1071800, 394400>>, <<-1062900, 394400>>, <<-1062900, 397400>>, <<-1071800, 397400>>, <<-1071800, 394400>>>>, FALSE, FALSE), 1),
    Run(Feat("Summit County DDA", "Polygon", <<<<-1063800, 393800>>, <<-1057300, 393800>>, <<-1057300, 396600>>, <<-1063800, 396600>>, <<-1063800, 393800>>>>, FALSE, FALSE), 1),
    Run(Feat("Pitkin County DDA (Aspen)", "Polygon", <<<<-1072600, 391200>>, <<-1066800, 391200>>, <<-1066800, 393800>>, <<-1072600, 393800>>, <<-1072600, 391200>>>>, FALSE, FALSE), 1),
    Run(Feat("San Miguel County DDA (Telluride)", "Polygon", <<<<-1082000, 378200>>, <<-1073800, 378200>>, <<-1073800, 381500>>, <<-1082000, 381500>>, <<-1082000, 378200>>>>, FALSE, FALSE), 1),
    Run(Feat("Routt County DDA (Steamboat)", "Polygon", <<<<-1072800, 402500>>, <<-1064600, 402500>>, <<-1064600, 407400>>, <<-1072800, 407400>>, <<-1072800, 402500>>>>, FALSE, FALSE), 1),
    Run(Feat("Garfield County DDA", "Polygon", <<<<-1081000, 393000>>, <<-1070600, 393000>>, <<-1070600, 397500>>, <<-1081000, 397500>>, <<-1081000, 393000>>>>, FALSE, FALSE), 1),
    Run(Feat("La Plata County DDA (Durango)", "Polygon", <<<<-1081200, 370600>>, <<-1073000, 370600>>, <<-1073000, 375800>>, <<-1081200, 375800>>, <<-1081200, 370600>>>>, FALSE, FALSE), 1)
  >>


(* ------------------------------------------------------------------ *)
(* The embedded collections as objects of the page                    *)
(* ------------------------------------------------------------------ *)

\* The feature lists of the three const objects as the page holds them: copy
\* B declares them, copy A has none.  lihtcAll and the overlay layers refer
\* to these objects when the embedded data is used.
Embedded(v) ==
  IF v = "B"
  THEN [LIHTC |-> FALLBACK_LIHTC, QCT |-> FALLBACK_QCT, DDA |-> FALLBACK_DDA]
  ELSE [LIHTC |-> <<>>, QCT |-> <<>>, DDA |-> <<>>]

\* if (onlyQCT && !(p.QCT === 1 || ...)) continue; if (onlyDDA && ...) continue
PassesFilters(f, onlyQCT, onlyDDA) == (onlyQCT => f.qct) /\ (onlyDDA => f.dda)

RECURSIVE KeepRuns(_, _, _)
KeepRuns(runs, onlyQCT, onlyDDA) ==
  IF runs = <<>> THEN <<>>
  ELSE IF PassesFilters(Head(runs).f, onlyQCT, onlyDDA)
       THEN <<Head(runs)>> \o KeepRuns(Tail(runs), onlyQCT, onlyDDA)
       ELSE KeepRuns(Tail(runs), onlyQCT, onlyDDA)

renderLIHTCInPlace(emb, src, onlyQCT, onlyDDA) ==
  IF src = "fallback"
  THEN [emb EXCEPT !.LIHTC = KeepRuns(@, onlyQCT, onlyDDA)]
  ELSE emb

\* renderLIHTC() with lihtcAll set (src "fallback": lihtcAll is the object
\* FALLBACK_LIHTC itself): the loop reads lihtcAll.features, skips the
\* features the two filter checkboxes exclude and makes a marker of each
\* other one; it assigns to no feature and to no list.  The value is the
\* embedded objects after the call.
renderLIHTC(emb, src, onlyQCT, onlyDDA) == emb

(* ------------------------------------------------------------------ *)
(* How the promises of the page settle                                *)
(* ------------------------------------------------------------------ *)

\* try { body } catch (e) { handler }: an exception leaves the statement only
\* when the body throws and the handler throws too
TryCatch(bodyThrows, handlerThrows) == bodyThrows /\ handlerThrows

\* init() at the boundaries: try { await Promise.all([...]) ... } catch (e) {
\* console.error(...); map.setView(...) }
boundariesReject(fetchFailed) == TryCatch(fetchFailed, FALSE)

ensureRejectsNoCatch(chainThrew) == chainThrew

\* ensureQCT / ensureDDA: try { layer = await <chain> } catch { warn [copy A]
\* / layer = makeOverlayLayer(FALLBACK_...) [copy B] }
ensureRejects(chainThrew) == TryCatch(chainThrew, FALSE)

\* syncQCT / syncDDA: await ensureQCT() stands outside any try block
syncRejects(ensureRejected) == ensureRejected

\* A promise nobody awaits and nobody attached a handler to: the one init()
\* returns to the entry point or to the DOMContentLoaded listener, and the
\* ones syncQCT() / syncDDA() return to init() and to the change listeners.
\* Rejected, it is an unhandled rejection.
Floating(name, rejected) == IF rejected THEN {name} ELSE {}

SyncName(o) == IF o = "QCT" THEN "syncQCT" ELSE "syncDDA"

(* ------------------------------------------------------------------ *)
(* getWorkingVintage                                                  *)
(* ------------------------------------------------------------------ *)

\* const VINTAGES = ["2023", "2022", "2021", "2020"]
VINTAGES == <<"2023", "2022", "2021", "2020">>

\* the geographies buildUrl knows, which are the ones the callers pass
Geographies == {"national", "state", "county", "place"}

\* buildUrl: throw new Error("Unknown geography")
buildUrlThrows(geography) == geography \notin Geographies

\* One getWorkingVintage call.  st: "idle" not called, "wait" awaiting
\* fetchJson for VINTAGES[i], "returned", "thrown"; reqs the vintages
\* requested so far, answers what came back, vintage the one returned.
GvIdle ==
  [st |-> "idle", geography |-> "", i |-> 0, reqs |-> <<>>, answers |-> <<>>,
   vintage |-> ""]

\* What a request may give: fetchJson throws ("http": !res.ok, "net": fetch
\* rejects, "json": res.json() rejects), or the body is not an array
\* ("object"), or it is an array of len rows, the header row included
Answer(kind, len) == [kind |-> kind, len |-> len]

fetchJsonThrows(ans) == ans.kind \in {"http", "net", "json"}

IsWorkingWithHeaderOnly(ans) == ans.kind = "array" /\ ans.len > 0

\* Array.isArray(data) && data.length > 1
IsWorking(ans) == ans.kind = "array" /\ ans.len > 1

\* getWorkingVintage(geography, params) from the head of the loop for
\* VINTAGES[i] up to the next await, or the throw after the loop
GvIterate(g, i) ==
  IF i > Len(VINTAGES)
  THEN [g EXCEPT !.st = "thrown", !.i = 0]
  ELSE IF buildUrlThrows(g.geography)
  THEN \* catch (e) { /* try next */ }
       [g EXCEPT !.i = i]
  ELSE [g EXCEPT !.st = "wait", !.i = i, !.reqs = Append(g.reqs, VINTAGES[i])]

RECURSIVE GvRun(_, _)
\* the loop run until the call awaits, returns or throws
GvRun(g, i) ==
  LET g1 == GvIterate(g, i)
  IN  IF g1.st = "running" THEN GvRun(g1, i + 1) ELSE g1

\* the call
getWorkingVintageCall(geography) ==
  GvRun([GvIdle EXCEPT !.st = "running", !.geography = geography], 1)

\* the call from the arrival of an answer on
getWorkingVintageResume(g, ans) ==
  LET g1 == [g EXCEPT !.answers = Append(g.answers, ans)]
  IN  IF ~fetchJsonThrows(ans) /\ IsWorking(ans)
      THEN [g1 EXCEPT !.st = "returned", !.vintage = VINTAGES[g.i], !.i = 0]
      ELSE GvRun([g1 EXCEPT !.st = "running"], g.i + 1)

(* ------------------------------------------------------------------ *)
(* State of the page                                                  *)
(* ------------------------------------------------------------------ *)

\* tryLoadOverlay / tryLoadFromAPI of one overlay.  st: "idle" not called,
\* "resolving" awaiting resolveItemUrl, "running" awaiting the arcgisQuery of
\* candidate (urls[ui], filters[fi]), "accepted" returned a collection,
\* "exhausted" threw.  skipped says that a query gave a non-empty collection
\* that was not used, passedOk that a query gave a collection that was still
\* non-empty after the client-side filter and was not used, viaAll that the
\* returned collection came from "1=1", partial that it came from a query one
\* of whose page requests failed, caught that the catch block around the
\* arcgisQuery call was entered.
ChainIdle ==
  [st |-> "idle", urls |-> <<>>, ui |-> 0, fi |-> 0, skipped |-> FALSE,
   passedOk |-> FALSE, viaAll |-> FALSE, partial |-> FALSE, caught |-> FALSE]

\* qctLoaded / ddaLoaded, qctLayer / ddaLayer (hasLayer: not null), where the
\* layer's collection came from, whether a syncQCT / syncDDA call is
\* suspended at its await, and how many times the load chain was called
OvInit ==
  [loaded |-> FALSE, hasLayer |-> FALSE, layer |-> <<>>, src |-> "none",
   waiting |-> FALSE, starts |-> 0]

\* placesLayer; of the arcgisQuery call of loadPlaces: whether one of its
\* page requests failed and how its promise settled; and whether the catch
\* block of loadPlaces was entered ("fallback": copy A awaits the query of
\* its catch block)
PlacesInit ==
  [st |-> "idle", hasLayer |-> FALSE, layer |-> <<>>, failed |-> FALSE,
   outcome |-> "pending", caught |-> FALSE]

\* lihtcAll (isNull: still null), the collection renderLIHTC draws its markers
\* from; where it came from, whether the live query gave no feature, and
\* the same three things of loadLIHTC as of loadPlaces
LihtcInit ==
  [st |-> "idle", isNull |-> TRUE, all |-> <<>>, src |-> "none",
   liveEmpty |-> FALSE, failed |-> FALSE, outcome |-> "pending",
   caught |-> FALSE]

\* the layerQCT and layerDDA checkboxes are chk; init() has run up to its first
\* await: both boundary files are requested
PageInit ==
  /\ variant \in {"A", "B"}
  /\ coBounds = (IF variant = "A" THEN "undefined" ELSE "CO_STRICT")
  /\ bnd = [states |-> "pending", counties |-> "pending"]
  /\ ipc = "boundaries"
  /\ onMap = {}
  /\ chk \in [Overlays -> BOOLEAN]
  /\ q = [c \in Callers |-> QIdle]
  /\ chain = [o \in Overlays |-> ChainIdle]
  /\ places = PlacesInit
  /\ lihtc = LihtcInit
  /\ ov = [o \in Overlays |-> OvInit]
  /\ unhandled = {}
  /\ embedded = Embedded(variant)
  /\ gv = GvIdle
  /\ doc = DocNone

(* ------------------------------------------------------------------ *)
(* The overlays: syncQCT / syncDDA, ensureQCT / ensureDDA, the chain  *)
(* ------------------------------------------------------------------ *)

\* the part of the state the overlay code writes
OvState ==
  [q |-> q, chain |-> chain, ov |-> ov, onMap |-> onMap, unhandled |-> unhandled]

\* chk.checked ? layer.addTo(map) : map.removeLayer(layer)
AddOrRemove(map, o, checked) == IF checked THEN map \cup {o} ELSE map \ {o}

\* tryLoadOverlay / tryLoadFromAPI is called by ensureQCT / ensureDDA and
\* runs up to its first await (copy A: resolveItemUrl, copy B: the
\* arcgisQuery of the first candidate); the sync call is suspended
StartChain(S, o, v) ==
  [S EXCEPT
     !.ov[o].waiting = TRUE,
     !.ov[o].starts = IF @ < MaxStarts THEN @ + 1 ELSE @,
     !.chain[o] = IF v = "A"
                  THEN [ChainIdle EXCEPT !.st = "resolving",
                                         !.urls = <<PrimaryUrl(o)>>]
                  ELSE [ChainIdle EXCEPT !.st = "running",
                                         !.urls = <<PrimaryUrl(o)>>,
                                         !.ui = 1, !.fi = 1],
     !.q[o] = IF v = "A" THEN QIdle
              ELSE arcgisQueryCall(PrimaryUrl(o), FiltersB[1])]

EnsureStartNoFlag(S, o, v) == StartChain(S, o, v)

\* ensureQCT / ensureDDA when the flag is still false:
\* qctLoaded = true; try { qctLayer = await <chain> } ...
EnsureStart(S, o, v) ==
  StartChain([S EXCEPT !.ov[o].loaded = TRUE], o, v)

SyncNoFlag(S, o, checked, v) ==
  IF checked /\ ~S.ov[o].hasLayer
  THEN EnsureStart(S, o, v)
  ELSE IF S.ov[o].hasLayer
       THEN [S EXCEPT !.onMap = AddOrRemove(S.onMap, o, checked)]
       ELSE S

\* syncQCT / syncDDA, called with the checkbox reading `checked`
Sync(S, o, checked, v) ==
  IF checked /\ ~S.ov[o].hasLayer
  THEN IF S.ov[o].loaded
       THEN S   \* ensure returns at once and the layer is still null
       ELSE EnsureStart(S, o, v)
  ELSE IF S.ov[o].hasLayer
       THEN [S EXCEPT !.onMap = AddOrRemove(S.onMap, o, checked)]
       ELSE S

\* the embedded collection of an overlay (copy B)
FallbackOf(o) == IF o = "QCT" THEN FALLBACK_QCT ELSE FALLBACK_DDA

ChainAcceptAlwaysAdd(S, o, features, src, checked) ==
  [S EXCEPT
     !.ov[o].hasLayer = TRUE,
     !.ov[o].layer = features,
     !.ov[o].src = src,
     !.ov[o].waiting = FALSE,
     !.onMap = S.onMap \cup {o}]

\* the chain returns `features`: ensure stores the layer, and the suspended
\* sync call resumes with the checkbox as it reads now
ChainAccept(S, o, features, src, checked) ==
  [S EXCEPT
     !.ov[o].hasLayer = TRUE,
     !.ov[o].layer = features,
     !.ov[o].src = src,
     !.ov[o].waiting = FALSE,
     !.onMap = AddOrRemove(S.onMap, o, checked)]

\* the chain throws: copy A logs and leaves the layer null, copy B makes the
\* layer from the embedded collection; then the suspended sync call resumes
ChainExhausted(S, o, v, checked) ==
  LET S1 == [S EXCEPT !.chain[o] = [S.chain[o] EXCEPT !.st = "exhausted",
                                                       !.ui = 0, !.fi = 0],
                      !.q[o] = QIdle]
  IN  IF ensureRejects(TRUE)
      THEN \* the error leaves ensure and the sync call that awaits it
           [S1 EXCEPT !.ov[o].waiting = FALSE,
                      !.unhandled = @ \cup Floating(SyncName(o), syncRejects(TRUE))]
      ELSE IF v = "A" THEN [S1 EXCEPT !.ov[o].waiting = FALSE]
      ELSE ChainAccept(S1, o, FallbackOf(o), "fallback", checked)

\* if (where === '1=1' && coBounds) [copy A] / if (where === '1=1') [copy B]
FilterApplies(v, where, bounds) ==
  IF v = "A" THEN where = "1=1" /\ bounds # "undefined"
  ELSE where = "1=1"

\* let features = gj.features; if (<filter applies>) features = features.filter(...)
ClientFiltered(v, where, bounds, gj) ==
  IF FilterApplies(v, where, bounds) THEN BBoxFilter(v, gj) ELSE gj

\* if (!gj.features.length) continue; ... if (!features.length) continue [copy A]
\* if (!gj.features.length) continue; ... if (features.length) return [copy B]
Accepts(gj, features) == Count(gj) # 0 /\ Count(features) # 0

NextCandidateUrlFirst(ui, fi, nUrls, nFilters) ==
  IF ui < nUrls THEN <<ui + 1, fi>>
  ELSE IF fi < nFilters THEN <<1, fi + 1>>
  ELSE <<0, 0>>

\* the loops for (const url of urls) for (const where of filters): the
\* candidate after (ui, fi), <<0, 0>> when there is none
NextCandidate(ui, fi, nUrls, nFilters) ==
  IF fi < nFilters THEN <<ui, fi + 1>>
  ELSE IF ui < nUrls THEN <<ui + 1, 1>>
  ELSE <<0, 0>>

\* the chain from the settlement of the arcgisQuery call qr of its candidate
\* up to its next await, its return or its throw; a rejected call enters the
\* catch block of the loop, which goes to the next candidate
ChainResume(S, o, qr, v, bounds, checked) ==
  LET ch       == S.chain[o]
      where    == Filters(v)[ch.fi]
      gj       == qr.all
      features == ClientFiltered(v, where, bounds, gj)
      caught   == qr.outcome = "rejected"
  IN  IF ~caught /\ Accepts(gj, features)
      THEN ChainAccept(
             [S EXCEPT !.chain[o] = [ch EXCEPT !.st = "accepted",
                                               !.ui = 0, !.fi = 0,
                                               !.viaAll = (where = "1=1"),
                                               !.partial = qr.failed],
                       !.q[o] = QIdle],
             o, features, "api", checked)
      ELSE LET nxt == NextCandidate(ch.ui, ch.fi, Len(ch.urls), Len(Filters(v)))
               S1  == [S EXCEPT
                         !.chain[o].caught = ch.caught \/ caught,
                         !.chain[o].skipped = ch.skipped \/ Count(gj) # 0,
                         !.chain[o].passedOk = ch.passedOk \/ Count(features) # 0]
           IN  IF nxt = <<0, 0>> THEN ChainExhausted(S1, o, v, checked)
               ELSE [S1 EXCEPT
                       !.chain[o].ui = nxt[1],
                       !.chain[o].fi = nxt[2],
                       !.q[o] = arcgisQueryCall(ch.urls[nxt[1]],
                                                Filters(v)[nxt[2]])]

(* ------------------------------------------------------------------ *)
(* The services                                                       *)
(* ------------------------------------------------------------------ *)

\* a point in Denver and a point in New York
FeatIn == Feat("in", "Point", <<<<-1049903, 397392>>>>, FALSE, FALSE)

FeatOut == Feat("out", "Point", <<<<-740060, 407128>>>>, FALSE, FALSE)

\* a LIHTC project of the HUD layer
FeatProj == Feat("proj", "Point", <<<<-1049748, 397519>>>>, TRUE, FALSE)

FailResps == {Resp(k, FALSE, <<>>, FALSE, FALSE) : k \in FailKinds}

\* answers after which arcgisQuery returns: a failure, no feature, a body
\* without a features array, a short page without the flag
EndResps(feats) ==
  FailResps
    \cup {Resp("ok", TRUE, <<>>, FALSE, FALSE), Resp("ok", FALSE, <<>>, FALSE, FALSE)}
    \cup {Resp("ok", TRUE, <<Run(f, ShortPage)>>, FALSE, FALSE) : f \in feats}

\* full pages, after which arcgisQuery asks for another page
FullResps(feats) == {Resp("ok", TRUE, <<Run(f, PAGE)>>, FALSE, FALSE) : f \in feats}

\* The answers a service of the page may give to the request in flight of qr.
\* The QCT service holds features in and out of Colorado and answers up to
\* MaxSvcPages - 1 requests of a query with a full page; the other services
\* hold less than a page.
PageResps(c, qr) ==
  IF c = "QCT"
  THEN IF Len(qr.reqs) < MaxSvcPages
       THEN EndResps({FeatIn, FeatOut}) \cup FullResps({FeatIn})
       ELSE EndResps({FeatIn, FeatOut})
  ELSE IF c = "lihtc" THEN EndResps({FeatProj})
  ELSE EndResps({FeatIn})

(* ------------------------------------------------------------------ *)
(* Actions of the page                                                *)
(* ------------------------------------------------------------------ *)

SetOv(S) ==
  /\ q' = S.q
  /\ chain' = S.chain
  /\ ov' = S.ov
  /\ onMap' = S.onMap
  /\ unhandled' = S.unhandled

\* the lines of init() after the boundaries: the checkbox listeners are wired
\* and loadPlaces() and loadLIHTC() are called, each up to its first await
KickOff(S) ==
  [S EXCEPT !.q["places"] = arcgisQueryCall(CO_PLACES_URL, "STATE='08'"),
            !.q["lihtc"] = arcgisQueryCall(HUD_LIHTC_LAYER,
                                           "(PROJ_ST='CO') OR (STD_ST='CO')")]

BndGone == [states |-> "gone", counties |-> "gone"]

\* One of the two boundary files is answered ("ok": it is there and
\* Promise.all awaits the other).  Promise.all rejects with the first failure
\* and resolves when both files are there; from then on nothing reads the two
\* requests ("gone").
BoundaryResponse(which, ok) ==
  /\ bnd[which] = "pending"
  /\ LET other == IF which = "states" THEN "counties" ELSE "states"
     IN  IF ~ok
         THEN IF boundariesReject(TRUE)
              THEN \* the error leaves init(), which ends there
                   /\ bnd' = BndGone
                   /\ ipc' = "rejected"
                   /\ coBounds' = coBounds
                   /\ SetOv([OvState EXCEPT
                               !.unhandled = @ \cup Floating("init", TRUE)])
              ELSE
              \* catch (e): the default view; coBounds keeps its first value
              /\ bnd' = BndGone
              /\ ipc' = "loads"
              /\ coBounds' = coBounds
              /\ SetOv(KickOff(OvState))
         ELSE IF bnd[other] = "ok"
         THEN /\ bnd' = BndGone
              /\ ipc' = "loads"
              /\ coBounds' = "state"
              /\ SetOv(KickOff([OvState EXCEPT
                                  !.onMap = onMap \cup {"state", "counties"}]))
         ELSE /\ bnd' = [bnd EXCEPT ![which] = "ok"]
              /\ UNCHANGED <<coBounds, ipc, onMap, q, chain, ov, unhandled>>
  /\ UNCHANGED <<variant, chk, places, lihtc, embedded, gv, hz, doc>>

\* await Promise.allSettled([loadPlaces(), loadLIHTC()]) is over:
\* if (layerQCT.checked) syncQCT(); if (layerDDA.checked) syncDDA()
AfterLoads(S) ==
  LET S1 == IF chk["QCT"] THEN Sync(S, "QCT", TRUE, variant) ELSE S
  IN  IF chk["DDA"] THEN Sync(S1, "DDA", TRUE, variant) ELSE S1

\* a load has settled: init() goes on when the other has too
Settle(S, otherSt) ==
  IF otherSt = "settled"
  THEN ipc' = "done" /\ SetOv(AfterLoads(S))
  ELSE ipc' = ipc /\ SetOv(S)

\* the try block of loadPlaces throws: the awaited arcgisQuery call rejected,
\* or (copy B) if (!gj.features.length) throw new Error('empty')
loadPlacesThrows(v, qr) ==
  qr.outcome = "rejected" \/ (v = "B" /\ Count(qr.all) = 0)

\* the try block of loadLIHTC throws: the awaited arcgisQuery call rejected,
\* or (copy B) if (!gj.features.length) throw new Error('Empty result from HUD')
loadLIHTCThrows(v, qr) ==
  qr.outcome = "rejected" \/ (v = "B" /\ Count(qr.all) = 0)

\* copy A, catch block of loadPlaces: the Colorado State Basemap is queried
PlacesFallback(qr) ==
  [places EXCEPT !.st = "fallback", !.failed = qr.failed,
                 !.outcome = qr.outcome, !.caught = TRUE]

\* loadPlaces after the arcgisQuery call qr to its end.  Copy B makes the
\* layer of the collection, or logs in its catch block.  Copy A makes the
\* layer of whatever the query, or the query of its catch block, resolved
\* with; the inner catch block logs.
PlacesDone(qr) ==
  IF places.st = "fallback"
  THEN [places EXCEPT !.st = "settled",
                      !.hasLayer = qr.outcome # "rejected",
                      !.layer = IF qr.outcome # "rejected" THEN qr.all ELSE <<>>]
  ELSE IF loadPlacesThrows(variant, qr)
  THEN [st |-> "settled", hasLayer |-> FALSE, layer |-> <<>>,
        failed |-> qr.failed, outcome |-> qr.outcome, caught |-> TRUE]
  ELSE [st |-> "settled", hasLayer |-> TRUE, layer |-> qr.all,
        failed |-> qr.failed, outcome |-> qr.outcome, caught |-> FALSE]

PlacesResponse(resp) ==
  /\ q["places"].st = "wait"
  /\ LET q1 == arcgisQueryResume(q["places"], resp)
     IN  IF q1.st = "wait"
         THEN /\ q' = [q EXCEPT !["places"] = q1]
              /\ UNCHANGED <<places, ipc, chain, ov, onMap, unhandled>>
         ELSE IF variant = "A" /\ places.st # "fallback"
                 /\ loadPlacesThrows(variant, q1)
         THEN /\ places' = PlacesFallback(q1)
              /\ q' = [q EXCEPT !["places"] =
                         arcgisQueryCall(BASEMAP_PLACES_URL, "1=1")]
              /\ UNCHANGED <<ipc, chain, ov, onMap, unhandled>>
         ELSE /\ places' = PlacesDone(q1)
              /\ Settle([OvState EXCEPT !.q["places"] = QIdle], lihtc.st)
  /\ UNCHANGED <<variant, coBounds, bnd, chk, lihtc, embedded, gv, hz, doc>>

LihtcDoneNoFallback(qr) ==
  [st |-> "settled", isNull |-> FALSE, all |-> qr.all, src |-> "api",
   liveEmpty |-> Count(qr.all) = 0, failed |-> qr.failed,
   outcome |-> qr.outcome, caught |-> FALSE]

\* loadLIHTC after the arcgisQuery call qr to its end.  Copy A: lihtcAll = gj
\* and renderLIHTC(), or its catch block, which leaves lihtcAll null.  Copy
\* B: its catch block sets gj = FALLBACK_LIHTC; then lihtcAll = gj and
\* renderLIHTC().
LihtcDone(qr) ==
  LET threw == loadLIHTCThrows(variant, qr)
      r     == [st |-> "settled", isNull |-> FALSE, all |-> qr.all,
                src |-> "api", liveEmpty |-> Count(qr.all) = 0,
                failed |-> qr.failed, outcome |-> qr.outcome,
                caught |-> threw]
  IN  IF ~threw THEN r
      ELSE IF variant = "B"
      THEN [r EXCEPT !.all = FALLBACK_LIHTC, !.src = "fallback"]
      ELSE [r EXCEPT !.isNull = TRUE, !.all = <<>>, !.src = "none"]

LihtcResponse(resp) ==
  /\ q["lihtc"].st = "wait"
  /\ LET q1 == arcgisQueryResume(q["lihtc"], resp)
     IN  IF q1.st = "wait"
         THEN /\ q' = [q EXCEPT !["lihtc"] = q1]
              /\ UNCHANGED <<lihtc, ipc, chain, ov, onMap, unhandled, embedded>>
         ELSE /\ lihtc' = LihtcDone(q1)
              /\ embedded' \in {renderLIHTC(embedded, LihtcDone(q1).src,
                                             onlyQCT, onlyDDA) :
                                   onlyQCT \in BOOLEAN, onlyDDA \in BOOLEAN}
              /\ Settle([OvState EXCEPT !.q["lihtc"] = QIdle], places.st)
  /\ UNCHANGED <<variant, coBounds, bnd, chk, places, gv, hz, doc>>

\* the item of at most one overlay resolves to another service
ResolveOutcomesFor(o) ==
  IF \E p \in Overlays \ {o} : Len(chain[p].urls) > 1
  THEN ResolveOutcomes \ {"new"}
  ELSE ResolveOutcomes

\* copy A: resolveItemUrl is answered and tryLoadOverlay queries its first
\* candidate
ResolveResponse(o, outcome) ==
  /\ chain[o].st = "resolving"
  /\ outcome \in ResolveOutcomesFor(o)
  /\ LET urls == UrlsAfterResolve(o, outcome)
     IN  /\ chain' = [chain EXCEPT ![o] = [@ EXCEPT !.st = "running",
                                                   !.urls = urls,
                                                   !.ui = 1, !.fi = 1]]
         /\ q' = [q EXCEPT ![o] = arcgisQueryCall(urls[1], FiltersA[1])]
  /\ UNCHANGED <<variant, coBounds, bnd, ipc, onMap, chk, places, lihtc, ov,
                 unhandled, embedded, gv, hz, doc>>

\* a page request of an overlay's chain is answered
OverlayResponse(o, resp) ==
  /\ q[o].st = "wait"
  /\ LET q1 == arcgisQueryResume(q[o], resp)
     IN  IF q1.st = "wait"
         THEN SetOv([OvState EXCEPT !.q[o] = q1])
         ELSE SetOv(ChainResume(OvState, o, q1, variant, coBounds, chk[o]))
  /\ UNCHANGED <<variant, coBounds, bnd, ipc, chk, places, lihtc, embedded, gv, hz, doc>>

\* the user changes the layerQCT / layerDDA checkbox: syncQCT / syncDDA once
\* init() has added the change listeners, nothing before
LayerChange(o) ==
  /\ chk' = [chk EXCEPT ![o] = ~chk[o]]
  /\ IF ipc \in {"loads", "done"}
     THEN SetOv(Sync(OvState, o, ~chk[o], variant))
     ELSE SetOv(OvState)
  /\ UNCHANGED <<variant, coBounds, bnd, ipc, places, lihtc, embedded, gv, hz, doc>>

\* the user changes the filterQCT / filterDDA checkbox: renderLIHTC() with
\* the two checkboxes as they read then; it returns at once while lihtcAll
\* is null
FilterChange ==
  /\ ipc \in {"loads", "done"}
  /\ embedded' \in IF lihtc.isNull THEN {embedded}
                   ELSE {renderLIHTC(embedded, lihtc.src, onlyQCT, onlyDDA) :
                           onlyQCT \in BOOLEAN, onlyDDA \in BOOLEAN}
  /\ UNCHANGED <<variant, coBounds, bnd, ipc, onMap, chk, q, chain, places, lihtc,
                 ov, unhandled, gv, hz, doc>>

Init == PageInit /\ hz = HzNone

Next ==
  \/ \E w \in {"states", "counties"}, ok \in BOOLEAN : BoundaryResponse(w, ok)
  \/ \E r \in PageResps("places", q["places"]) : PlacesResponse(r)
  \/ \E r \in PageResps("lihtc", q["lihtc"]) : LihtcResponse(r)
  \/ \E o \in Overlays, out \in ResolveOutcomes : ResolveResponse(o, out)
  \/ \E o \in Overlays : \E r \in PageResps(o, q[o]) : OverlayResponse(o, r)
  \/ \E o \in Overlays : LayerChange(o)
  \/ FilterChange

Spec == Init /\ [][Next]_vars

(* ------------------------------------------------------------------ *)
(* Harness: one arcgisQuery call against a service                    *)
(* ------------------------------------------------------------------ *)

\* the page at rest, for the harnesses, which involve no embedded object
PageIdle ==
  /\ coBounds = "CO_STRICT"
  /\ bnd = BndGone
  /\ ipc = "harness"
  /\ onMap = {}
  /\ chk = [o \in Overlays |-> FALSE]
  /\ q = [c \in Callers |-> QIdle]
  /\ chain = [o \in Overlays |-> ChainIdle]
  /\ places = PlacesInit
  /\ lihtc = LihtcInit
  /\ ov = [o \in Overlays |-> OvInit]
  /\ unhandled = {}
  /\ embedded = Embedded("A")
  /\ gv = GvIdle

\* the feature counts an honest service may hold: full pages, and a short one
Totals == {a * PAGE + b : a \in 0..MaxFull, b \in {0, ShortPage}}

InitQuery ==
  /\ PageIdle
  /\ doc = DocNone
  /\ variant = "B"
  /\ \E t \in Totals \cup {-1} : hz = [HzNone EXCEPT !.mode = "query", !.total = t]

Min(a, b) == IF a < b THEN a ELSE b

Max(a, b) == IF a > b THEN a ELSE b

\* a page of n features answering resultOffset `offset`: the rows of the
\* first page are features in Colorado, the later rows are not
PageOf(n, offset) ==
  IF n = 0 THEN <<>>
  ELSE IF offset = 0 THEN <<Run(FeatIn, n)>>
  ELSE <<Run(FeatOut, n)>>

\* The answers to the request in flight of qr.  A service that holds `total`
\* features answers resultOffset o with the next PAGE of them at most and
\* sets no flag; the other service answers anything: a failure, a body with
\* or without a features array, 0, ShortPage or PAGE features, the flag at
\* the top level, under properties, both or nowhere.
HarnessResps(total, qr) ==
  IF qr.st # "wait" THEN {}
  ELSE IF total >= 0
  THEN {Resp("ok", TRUE,
             PageOf(Min(PAGE, Max(0, total - qr.reqs[Len(qr.reqs)])),
                    qr.reqs[Len(qr.reqs)]),
             FALSE, FALSE)}
  ELSE FailResps
         \cup {Resp("ok", h, PageOf(n, qr.reqs[Len(qr.reqs)]), t, p) :
                 h \in BOOLEAN, n \in {0, ShortPage, PAGE},
                 t \in BOOLEAN, p \in BOOLEAN}

HarnessCall ==
  /\ hz.mode = "query"
  /\ q["harness"].st = "idle"
  /\ q' = [q EXCEPT !["harness"] = arcgisQueryCall("layerUrl", "1=1")]
  /\ UNCHANGED <<variant, coBounds, bnd, ipc, onMap, chk, chain, places, lihtc, ov,
                 unhandled, embedded, gv, hz, doc>>

HarnessResponse(resp) ==
  /\ hz.mode = "query"
  /\ q["harness"].st = "wait"
  /\ q' = [q EXCEPT !["harness"] = arcgisQueryResume(q["harness"], resp)]
  /\ hz' = [hz EXCEPT !.last = LastOf(resp)]
  /\ UNCHANGED <<variant, coBounds, bnd, ipc, onMap, chk, chain, places, lihtc, ov,
                 unhandled, embedded, gv, doc>>

NextQuery ==
  \/ HarnessCall
  \/ \E r \in HarnessResps(hz.total, q["harness"]) : HarnessResponse(r)

SpecQuery == InitQuery /\ [][NextQuery]_vars

(* ------------------------------------------------------------------ *)
(* Harness: the client-side filter on one feature                     *)
(* ------------------------------------------------------------------ *)

\* longitudes -120, -109.5, -105.5, -105, -5, 5 and latitudes 5, 39, 40.5, 45
LngVals == {-1200000, -1095000, -1055000, -1050000, -50000, 50000}

LatVals == {50000, 390000, 405000, 450000}

Vertices == LngVals \X LatVals

VertexSeqs == UNION {[1..n -> Vertices] : n \in 1..MaxVerts}

BoxFeats ==
  {Feat("g", "Point", <<v>>, FALSE, FALSE) : v \in Vertices}
    \cup {Feat("g", t, vs, FALSE, FALSE) :
            t \in {"Polygon", "MultiPolygon"}, vs \in VertexSeqs}
    \cup {NoFeat}

InitBBox ==
  /\ PageIdle
  /\ doc = DocNone
  /\ variant \in {"A", "B"}
  /\ \E f \in BoxFeats : hz = [HzNone EXCEPT !.mode = "bbox", !.feat = f]

\* features.filter(...) on the collection of the one feature
ApplyFilter ==
  /\ hz.mode = "bbox"
  /\ hz.kept = "?"
  /\ hz' = [hz EXCEPT !.kept =
              IF Count(BBoxFilter(variant, <<Run(hz.feat, 1)>>)) = 1
              THEN "yes" ELSE "no"]
  /\ UNCHANGED <<variant, coBounds, bnd, ipc, onMap, chk, q, chain, places, lihtc, ov,
                 unhandled, embedded, gv, doc>>

NextBBox == ApplyFilter

SpecBBox == InitBBox /\ [][NextBBox]_vars

(* ------------------------------------------------------------------ *)
(* Harness: one getWorkingVintage call against the Census API         *)
(* ------------------------------------------------------------------ *)

\* the answers of the API: a failure, a body that is no array, a table of up
\* to MaxTable rows
Answers ==
  {Answer(k, 0) : k \in {"http", "net", "json", "object"}}
    \cup {Answer("array", n) : n \in 0..MaxTable}

InitVintage ==
  /\ PageIdle
  /\ doc = DocNone
  /\ variant = "B"
  /\ hz = [HzNone EXCEPT !.mode = "vintage"]

VintageCall(geography) ==
  /\ hz.mode = "vintage"
  /\ gv.st = "idle"
  /\ gv' = getWorkingVintageCall(geography)
  /\ UNCHANGED <<variant, coBounds, bnd, ipc, onMap, chk, q, chain, places, lihtc,
                 ov, unhandled, embedded, hz, doc>>

VintageResponse(ans) ==
  /\ hz.mode = "vintage"
  /\ gv.st = "wait"
  /\ gv' = getWorkingVintageResume(gv, ans)
  /\ UNCHANGED <<variant, coBounds, bnd, ipc, onMap, chk, q, chain, places, lihtc,
                 ov, unhandled, embedded, hz, doc>>

NextVintage ==
  \/ \E g \in Geographies : VintageCall(g)
  \/ \E a \in Answers : VintageResponse(a)

SpecVintage == InitVintage /\ [][NextVintage]_vars

(* ------------------------------------------------------------------ *)
(* Properties of the pagination (SpecQuery)                           *)
(* ------------------------------------------------------------------ *)

HQ == q["harness"]

Honest == hz.mode = "query" /\ hz.total >= 0

CeilDiv(a, b) == (a + b - 1) \div b

OffsetsInSteps(reqs) == \A i \in 1..Len(reqs) : reqs[i] = (i - 1) * PAGE

\* C1: against a service that holds N features and never sets the
\* flag, a call that has returned has issued ceil(N / PAGE) requests, at the
\* offsets 0, PAGE, 2 PAGE, ...
C1_CeilRequests ==
  (Honest /\ HQ.st = "done") =>
    /\ Len(HQ.reqs) = CeilDiv(hz.total, PAGE)
    /\ OffsetsInSteps(HQ.reqs)

\* C2: a call one of whose page requests failed ends rejected; it
\* never resolves with the features of the pages before the failure
C2_FailureRejects ==
  \A c \in Callers : (q[c].st = "done" /\ q[c].failed) => q[c].outcome = "rejected"

\* C3: a call issues at most HardGuard (150) page requests
C3_AtMostGuardRequests == \A c \in Callers : Len(q[c].reqs) <= HardGuard

LastFlagged == hz.last.kind = "ok" /\ (hz.last.top \/ hz.last.nested)

\* C4 as stated: after an answer with the flag set (at the top level or under
\* properties) a further page request is in flight
C4_FlagAlwaysContinues == LastFlagged => HQ.st = "wait"

\* C4 amended: after an answer with the flag set that holds at least one
\* feature a further page request is in flight, also when the page is shorter
\* than PAGE, unless the answer was that of request HardGuard + 1 of the call
C4_FlagContinues ==
  (LastFlagged /\ hz.last.n > 0) =>
    \/ HQ.st = "wait" /\ HQ.reqs[Len(HQ.reqs)] = HQ.offset /\ Len(HQ.reqs) = HQ.pages + 1
    \/ HQ.st = "done" /\ Len(HQ.reqs) = HardGuard + 1

C4_Witness ==
  /\ hz.last.kind = "ok"
  /\ hz.last.nested
  /\ ~hz.last.top
  /\ hz.last.n = ShortPage
  /\ HQ.st = "wait"
  /\ Len(HQ.reqs) = 3

RECURSIVE Increasing(_)
Increasing(s) ==
  IF Len(s) < 2 THEN TRUE
  ELSE s[1] < s[2] /\ Increasing(Tail(s))

\* C10: in every state of a call the accumulator holds at most as many
\* features as the pages that arrived held together, and the offsets
\* requested are strictly increasing (none is requested twice)
C10_AccumulatorAndOffsets ==
  \A c \in Callers :
    /\ Count(q[c].all) <= q[c].got
    /\ Increasing(q[c].reqs)

C10_Witness ==
  /\ HQ.st = "wait"
  /\ Len(HQ.reqs) = 3
  /\ Count(HQ.all) = PAGE + ShortPage
  /\ HQ.got = PAGE + ShortPage

(* ------------------------------------------------------------------ *)
(* Properties of the overlay chain and of the embedded data (Spec)    *)
(* ------------------------------------------------------------------ *)

CandIndex(ch) == (ch.ui - 1) * Len(Filters(variant)) + ch.fi

\* C5 as stated: the first candidate whose query gives a non-empty
\* collection is the one used: none is passed over
C5_FirstNonEmptyUsed == \A o \in Overlays : ~chain[o].skipped

C5_StateOk(o) ==
  /\ ~chain[o].passedOk
  /\ chain[o].st = "running" =>
       /\ q[o].st = "wait"
       /\ q[o].url = chain[o].urls[chain[o].ui]
       /\ q[o].where = Filters(variant)[chain[o].fi]
  /\ chain[o].st \in {"accepted", "exhausted"} => q[o].st = "idle"
  /\ chain[o].st = "accepted" =>
       ov[o].hasLayer /\ Count(ov[o].layer) > 0 /\ ov[o].src = "api"

C5_StepOk(o) ==
  /\ (chain[o].st # "running" /\ chain'[o].st = "running") => CandIndex(chain'[o]) = 1
  /\ (chain[o].st = "running" /\ chain'[o].st = "running"
        /\ CandIndex(chain'[o]) # CandIndex(chain[o])) =>
       /\ CandIndex(chain'[o]) = CandIndex(chain[o]) + 1
       /\ chain'[o].urls = chain[o].urls
  /\ chain[o].st \in {"accepted", "exhausted"} => chain'[o].st = chain[o].st

\* C5 amended: the candidates are queried in list order (every filter for the
\* first URL, then the next URL), one at a time; the first candidate whose
\* collection is non-empty and still non-empty after the client-side filter
\* applied to a "1=1" result is the one used (no such candidate is passed
\* over); once a candidate is used no further query is made
C5_FirstAcceptableUsed ==
  /\ [](\A o \in Overlays : C5_StateOk(o))
  /\ [][\A o \in Overlays : C5_StepOk(o)]_vars

C5_Witness ==
  /\ variant = "A"
  /\ chain["QCT"].st = "accepted"
  /\ chain["QCT"].skipped
  /\ Len(chain["QCT"].urls) = 3
  /\ Count(ov["QCT"].layer) > 0

\* C6: in copy B, when the live LIHTC query gave no feature lihtcAll is
\* FALLBACK_LIHTC, and when the chain of an overlay is exhausted its layer is
\* made of FALLBACK_QCT / FALLBACK_DDA: the same features in the same order;
\* the suspended sync call has resumed and init() is not held up
C6_FallbackVerbatim ==
  variant = "B" =>
    /\ (lihtc.st = "settled" /\ lihtc.liveEmpty) =>
         ~lihtc.isNull /\ lihtc.all = FALLBACK_LIHTC /\ lihtc.src = "fallback"
    /\ (lihtc.st = "settled" /\ places.st = "settled") => ipc = "done"
    /\ chain["QCT"].st = "exhausted" =>
         /\ ov["QCT"].hasLayer /\ ov["QCT"].layer = FALLBACK_QCT
         /\ ~ov["QCT"].waiting
    /\ chain["DDA"].st = "exhausted" =>
         /\ ov["DDA"].hasLayer /\ ov["DDA"].layer = FALLBACK_DDA
         /\ ~ov["DDA"].waiting

C6_Witness ==
  /\ variant = "B"
  /\ lihtc.liveEmpty
  /\ lihtc.all = FALLBACK_LIHTC
  /\ chain["QCT"].st = "exhausted"
  /\ ov["QCT"].layer = FALLBACK_QCT
  /\ "QCT" \in onMap
  /\ chain["DDA"].st = "exhausted"
  /\ ov["DDA"].layer = FALLBACK_DDA

\* a position of the feature lies inside the box of copy v
HasVertexInBox(v, f) ==
  \E i \in 1..Len(f.coords) : InBox(v, f.coords[i][1], f.coords[i][2])

\* C7: every feature of a collection the chain returned from a
\* "1=1" query has a position inside the Colorado box
C7_MatchAllIsFiltered ==
  \A o \in Overlays :
    (chain[o].st = "accepted" /\ chain[o].viaAll) =>
      \A i \in 1..Len(ov[o].layer) : HasVertexInBox(variant, ov[o].layer[i].f)

\* C9: the chain never returns a collection made of the pages that
\* came before a failed page request
C9_NoPartialAccepted ==
  \A o \in Overlays : chain[o].st = "accepted" => ~chain[o].partial

(* ------------------------------------------------------------------ *)
(* Property of the client-side filter (SpecBBox)                      *)
(* ------------------------------------------------------------------ *)

\* C8: the filter keeps a Point, Polygon or MultiPolygon feature
\* exactly when one of its positions lies inside the box
C8_FilterKeepsExactly ==
  (hz.mode = "bbox" /\ hz.kept # "?" /\ hz.feat.gtype # "none") =>
    (hz.kept = "yes" <=> HasVertexInBox(variant, hz.feat))

(* ------------------------------------------------------------------ *)
(* Properties of the chain's failure and of the loads (Spec)          *)
(* ------------------------------------------------------------------ *)

\* the (URL, filter) pair at position (u, f) of the candidate list of ch
PairAt(ch, u, f) == <<ch.urls[u], Filters(variant)[f]>>

\* the positions of the candidate list of ch that come before the one queried
Earlier(ch) ==
  {p \in (1..Len(ch.urls)) \X (1..Len(Filters(variant))) :
     (p[1] - 1) * Len(Filters(variant)) + p[2] < CandIndex(ch)}

\* C11: the chain queries every (URL, filter) combination once, in list
\* order, and throws exactly when none of them gave an acceptable non-empty
\* collection; the caller catches the error and its sync call goes on
C11_ExhaustedIffAllTriedOnce ==
  \A o \in Overlays :
    /\ chain[o].st = "running" =>
         \A p \in Earlier(chain[o]) :
           PairAt(chain[o], p[1], p[2]) # PairAt(chain[o], chain[o].ui, chain[o].fi)
    /\ chain[o].st = "exhausted" => ~chain[o].passedOk /\ ~ov[o].waiting

\* the layer drawn from a boundary file
BoundaryLayer(w) == IF w = "states" THEN "state" ELSE "counties"

\* C12: of the fetches started together, one that succeeds is kept when its
\* sibling fails: when the two boundary requests have settled, the layer of
\* every boundary file that arrived is on the map, and once the places load
\* and the LIHTC load have settled the LIHTC collection is there whatever the
\* places load did
C12_SiblingKept ==
  /\ [][\A w \in {"states", "counties"} :
          (bnd[w] = "ok" /\ bnd' = BndGone) => BoundaryLayer(w) \in onMap']_vars
  /\ []((places.st = "settled" /\ lihtc.st = "settled") => ~lihtc.isNull)

\* C13: whatever the requests answer, no promise of init(), of the loads, of
\* syncQCT / syncDDA or of a checkbox handler ends as an unhandled rejection,
\* and a failure stops nothing else: init() goes on after a failed boundary
\* load, and a sync call whose chain threw has resumed
C13_NoUnhandledRejection ==
  /\ unhandled = {}
  /\ ipc # "rejected"
  /\ bnd = BndGone => ipc \in {"loads", "done"}
  /\ (places.st = "settled" /\ lihtc.st = "settled") => ipc = "done"
  /\ \A o \in Overlays : chain[o].st = "exhausted" => ~ov[o].waiting

C13_Witness ==
  /\ variant = "A"
  /\ coBounds = "undefined"
  /\ bnd = BndGone
  /\ ipc = "done"
  /\ ~places.hasLayer \/ Count(places.layer) = 0
  /\ lihtc.liveEmpty
  /\ chain["QCT"].st = "exhausted"
  /\ chain["DDA"].st = "exhausted"
  /\ unhandled = {}

\* the step is the arrival of the answer to the request in flight of caller c
AnswerArrives(c) ==
  CASE c = "places" -> \E r \in PageResps(c, q[c]) : PlacesResponse(r)
    [] c = "lihtc" -> \E r \in PageResps(c, q[c]) : LihtcResponse(r)
    [] c \in Overlays -> \E r \in PageResps(c, q[c]) : OverlayResponse(c, r)
    [] OTHER -> \E r \in HarnessResps(hz.total, q[c]) : HarnessResponse(r)

C14_OneInFlight ==
  \A c \in Callers :
    /\ q[c].st = "wait" =>
         /\ Len(q[c].reqs) = q[c].pages + 1
         /\ \A d \in Callers \ {c} : q[d].st = "wait" => q[d].url # q[c].url
    /\ q[c].st # "wait" => q[c].st = "idle" \/ c = "harness"

C16_EmbeddedReadOnly ==
  /\ embedded = Embedded(variant)
  /\ variant = "B" =>
       /\ embedded.LIHTC = FALLBACK_LIHTC
       /\ embedded.QCT = FALLBACK_QCT
       /\ embedded.DDA = FALLBACK_DDA

C16_Witness ==
  /\ variant = "B"
  /\ ipc = "done"
  /\ lihtc.src = "fallback"
  /\ ov["QCT"].src = "fallback"
  /\ ov["DDA"].src = "fallback"
  /\ onMap \cap Overlays = {"DDA"}
  /\ embedded.LIHTC = FALLBACK_LIHTC

\* C18: no request of an overlay chain (resolveItemUrl or a page query) is
\* issued before both the places load and the LIHTC load have settled
C18_OverlaysAfterLoads ==
  \A o \in Overlays :
    (chain[o].st # "idle" \/ q[o].st # "idle") =>
      (places.st = "settled" /\ lihtc.st = "settled")

\* C19: in copy A, the step in which the primary places request fails leaves
\* loadPlaces querying the Colorado State Basemap service
C19_PlacesFallbackQueried ==
  [][(variant = "A" /\ q["places"].st = "wait"
        /\ \E r \in FailResps : PlacesResponse(r)) =>
       (q'["places"].st = "wait" /\ q'["places"].url = BASEMAP_PLACES_URL)]_vars

(* ------------------------------------------------------------------ *)
(* More properties of the pagination (SpecQuery)                      *)
(* ------------------------------------------------------------------ *)

\* the rows of the first page stand before the rows of the later pages
InArrivalOrder(all) ==
  /\ Len(all) <= 2
  /\ Len(all) >= 1 => all[1].f = FeatIn
  /\ Len(all) = 2 => all[2].f = FeatOut /\ all[1].n \in {ShortPage, PAGE}

\* C15: an answer that holds fewer than PAGE features (and at least one) and
\* no flag ends the call, which resolves with the features of all the pages
\* received, the first page's first; after a flagged page of 1000 and an
\* unflagged page of 400 the requests were those for offsets 0 and 1000 and
\* the result holds 1400 features
C15_ShortPageEnds ==
  /\ InArrivalOrder(HQ.all)
  /\ (hz.last.kind = "ok" /\ ~hz.last.top /\ ~hz.last.nested
        /\ hz.last.n > 0 /\ hz.last.n < PAGE) =>
       /\ HQ.st = "done"
       /\ HQ.outcome = "resolved"
       /\ ~HQ.failed
       /\ Count(HQ.all) = HQ.got
       /\ (HQ.reqs = <<0, PAGE>> /\ HQ.got = PAGE + hz.last.n) =>
            HQ.all = <<Run(FeatIn, PAGE), Run(FeatOut, hz.last.n)>>

C15_Witness ==
  /\ hz.total = -1
  /\ hz.last = [kind |-> "ok", n |-> ShortPage, top |-> FALSE, nested |-> FALSE]
  /\ HQ.st = "done"
  /\ HQ.reqs = <<0, PAGE>>
  /\ HQ.all = <<Run(FeatIn, PAGE), Run(FeatOut, ShortPage)>>
  /\ Count(HQ.all) = PAGE + ShortPage

\* C17: the offset of the request in flight is the number of features
\* accumulated from the pages before it
C17_OffsetIsAccumulated ==
  \A c \in Callers :
    q[c].st = "wait" => q[c].reqs[Len(q[c].reqs)] = Count(q[c].all)

(* ------------------------------------------------------------------ *)
(* Property of getWorkingVintage (SpecVintage)                        *)
(* ------------------------------------------------------------------ *)

\* a header row plus at least one data row
HasDataRow(ans) == ans.kind = "array" /\ ans.len >= 2

NoneUsable(answers, n) == \A k \in 1..n : ~HasDataRow(answers[k])

C20_StateOk ==
  /\ gv.reqs = SubSeq(VINTAGES, 1, Len(gv.reqs))
  /\ gv.st = "wait" =>
       /\ Len(gv.reqs) = Len(gv.answers) + 1
       /\ NoneUsable(gv.answers, Len(gv.answers))
  /\ gv.st = "returned" =>
       /\ Len(gv.reqs) = Len(gv.answers)
       /\ HasDataRow(gv.answers[Len(gv.answers)])
       /\ NoneUsable(gv.answers, Len(gv.answers) - 1)
       /\ gv.vintage = gv.reqs[Len(gv.reqs)]
  /\ gv.st = "thrown" =>
       /\ gv.reqs = VINTAGES
       /\ Len(gv.answers) = Len(VINTAGES)
       /\ NoneUsable(gv.answers, Len(gv.answers))
  /\ gv.st \in {"idle", "wait", "returned", "thrown"}

\* C20: getWorkingVintage requests the vintages 2023, 2022, 2021, 2020 in
\* this order, one at a time; it returns the first vintage whose answer is a
\* table with a header row and at least one data row, and requests nothing
\* after that; it throws only after all four vintages failed or gave no data
\* row
C20_FirstWorkingVintage ==
  /\ []C20_StateOk
  /\ [][gv.st \in {"returned", "thrown"} => gv' = gv]_vars

C20_Witness ==
  /\ gv.st = "returned"
  /\ gv.vintage = "2021"
  /\ gv.reqs = <<"2023", "2022", "2021">>
  /\ gv.answers = <<Answer("http", 0), Answer("array", 1), Answer("array", 2)>>


(* ------------------------------------------------------------------ *)
(* navigation.js: the injected header and footer                      *)
(* ------------------------------------------------------------------ *)

HEADER == "header.site-header"

FOOTER == "footer.site-footer"

\* The document of a page that loads navigation.js.  body lists the children
\* of <body> in document order: "main", "div", the injected elements, and
\* "wrap", a <div> whose children are listed in wrap (it holds the <main> of
\* the page).  styles counts the <style id="nav-injected-styles"> elements of
\* <head>, listeners the DOMContentLoaded listeners the script has added,
\* loads the executions of the script, runs the calls of inject(), events
\* the nav:rendered events dispatched.
NavDoc(readyState, body) ==
  [page |-> "nav", readyState |-> readyState, body |-> body,
   wrap |-> <<"main">>, styles |-> 0, listeners |-> 0, loads |-> 0,
   runs |-> 0, events |-> 0]

RECURSIVE CountOf(_, _)
\* the number of elements x in the list s
CountOf(s, x) ==
  IF s = <<>> THEN 0
  ELSE (IF Head(s) = x THEN 1 ELSE 0) + CountOf(Tail(s), x)

\* the children of the wrapper, when the body has one
WrapOf(d) == IF CountOf(d.body, "wrap") > 0 THEN d.wrap ELSE <<>>

\* document.querySelectorAll('header.site-header').length, and the same for
\* footer.site-footer
Headers(d) == CountOf(d.body, HEADER) + CountOf(WrapOf(d), HEADER)

Footers(d) == CountOf(d.body, FOOTER) + CountOf(WrapOf(d), FOOTER)

\* if (document.getElementById('nav-injected-styles')) return;
\* ... document.head.appendChild(s)
ensureHeaderStyles(d) ==
  IF d.styles > 0 THEN d ELSE [d EXCEPT !.styles = d.styles + 1]

\* list s with x inserted after position i
InsertAfter(s, i, x) == SubSeq(s, 1, i) \o <<x>> \o SubSeq(s, i + 1, Len(s))

\* document.querySelector('main'): the position in body of the first child
\* that is a <main> or holds one, 0 when there is none
FirstMain(body) ==
  IF \E i \in 1..Len(body) : body[i] \in {"main", "wrap"}
  THEN CHOOSE i \in 1..Len(body) :
         /\ body[i] \in {"main", "wrap"}
         /\ \A j \in 1..(i - 1) : body[j] \notin {"main", "wrap"}
  ELSE 0

\* the lines of inject() after the guard: the styles, the header before the
\* first child of <body>, the footer after <main> in the parent of <main> or
\* else at the end of <body>, and the nav:rendered event
injectElements(d) ==
  LET d1    == ensureHeaderStyles(d)
      body1 == <<HEADER>> \o d1.body
      m     == FirstMain(body1)
      d2    == IF m = 0
               THEN [d1 EXCEPT !.body = Append(body1, FOOTER)]
               ELSE IF body1[m] = "main"
               THEN [d1 EXCEPT !.body = InsertAfter(body1, m, FOOTER)]
               ELSE [d1 EXCEPT !.body = body1,
                               !.wrap = InsertAfter(d1.wrap, 1, FOOTER)]
  IN  [d2 EXCEPT !.events = d.events + 1]

injectNoGuard(d) == injectElements([d EXCEPT !.runs = d.runs + 1])

\* inject(): if (document.querySelector('header.site-header')) return;
inject(d) ==
  LET d0 == [d EXCEPT !.runs = d.runs + 1]
  IN  IF Headers(d0) > 0 THEN d0 ELSE injectElements(d0)

RECURSIVE injectTimes(_, _)
\* the DOMContentLoaded listeners run one after another
injectTimes(d, n) == IF n = 0 THEN d ELSE injectTimes(inject(d), n - 1)

\* the pages: readyState as the first execution of the script finds it, and
\* up to MaxBody children of <body>, one wrapper at most
NavBodies ==
  {b \in UNION {[1..n -> {"main", "div", "wrap"}] : n \in 0..MaxBody} :
     CountOf(b, "wrap") <= 1}

InitNav ==
  /\ PageIdle
  /\ variant = "A"
  /\ hz = [HzNone EXCEPT !.mode = "nav"]
  /\ \E rs \in {"loading", "complete"}, b \in NavBodies : doc = NavDoc(rs, b)

\* the script is executed (a <script> tag of the page, or a repeated load):
\* if (document.readyState === 'loading') addEventListener(...) else inject()
NavScript ==
  /\ hz.mode = "nav"
  /\ doc.loads < MaxLoads
  /\ doc' = IF doc.readyState = "loading"
            THEN [doc EXCEPT !.loads = doc.loads + 1,
                             !.listeners = doc.listeners + 1]
            ELSE inject([doc EXCEPT !.loads = doc.loads + 1])
  /\ UNCHANGED <<variant, coBounds, bnd, ipc, onMap, chk, q, chain, places, lihtc,
                 ov, unhandled, embedded, gv, hz>>

\* the document is parsed: DOMContentLoaded runs the listeners
DOMContentLoaded ==
  /\ hz.mode = "nav"
  /\ doc.readyState = "loading"
  /\ doc' = injectTimes([doc EXCEPT !.readyState = "interactive"], doc.listeners)
  /\ UNCHANGED <<variant, coBounds, bnd, ipc, onMap, chk, q, chain, places, lihtc,
                 ov, unhandled, embedded, gv, hz>>

NextNav ==
  \/ NavScript
  \/ DOMContentLoaded

SpecNav == InitNav /\ [][NextNav]_vars

\* the elements of the document
Dom(d) == [body |-> d.body, wrap |-> d.wrap, styles |-> d.styles]

C21_StateOk == Headers(doc) <= 1 /\ Footers(doc) <= 1

C21_StepOk == Headers(doc) > 0 => Dom(doc') = Dom(doc) /\ doc'.events = doc.events

\* C21: after any number of executions of navigation.js and of inject() on a
\* document, the document holds at most one header.site-header and at most
\* one footer.site-footer, and a run of inject() on a document that has a
\* header.site-header leaves its elements as they are and dispatches nothing.
C21_NoDuplicateInjection == [](C21_StateOk) /\ [][C21_StepOk]_vars

\* inject() has run three times and the document holds one header and one footer
C21_Witness ==
  /\ doc.page = "nav"
  /\ doc.runs = MaxLoads
  /\ Headers(doc) = 1
  /\ Footers(doc) = 1
  /\ doc.styles = 1

(* ------------------------------------------------------------------ *)
(* The root shim: navigation.js, then responsive-nav.js               *)
(* ------------------------------------------------------------------ *)

\* A script tag of the document whose src includes the name: st "absent" no
\* such tag, "loading" the tag is there and the script has not arrived,
\* "loaded", "failed"; owner the execution of the shim whose load() made the
\* tag and holds its onload / onerror (0: a tag of the page).
Tag(st, owner) == [st |-> st, owner |-> owner]

\* The document of a page that loads the shim: its script tags, the
\* executions of the shim (pc "waitNav" / "waitResp": awaiting the promise of
\* load(), "done": the chain resolved, "caught": .catch logged the error),
\* and navAtInsert, how the navigation.js tag stood when a shim appended the
\* tag of responsive-nav.js.
ShimDoc(nav, resp) ==
  [page |-> "shim", scripts |-> [nav |-> Tag(nav, 0), resp |-> Tag(resp, 0)],
   shims |-> <<>>, navAtInsert |-> "none"]

\* [...document.scripts].some(s => s.src && s.src.includes(src))
HasScript(d, name) == d.scripts[name].st # "absent"

\* load('js/responsive-nav.js') of execution i, up to the settlement of its
\* promise or its suspension
loadResponsive(d, i) ==
  IF HasScript(d, "resp")
  THEN [d EXCEPT !.shims[i] = "done"]
  ELSE [d EXCEPT !.scripts.resp = Tag("loading", i),
                 !.shims[i] = "waitResp",
                 !.navAtInsert = d.scripts.nav.st]

\* load('js/navigation.js').then(() => load('js/responsive-nav.js')) of
\* execution i: a tag that is there resolves the promise at once, and the
\* then-callback runs before any other event
loadNavigation(d, i) ==
  IF HasScript(d, "nav")
  THEN loadResponsive(d, i)
  ELSE [d EXCEPT !.scripts.nav = Tag("loading", i), !.shims[i] = "waitNav"]

TagStates == {"absent", "loading", "loaded", "failed"}

InitShim ==
  /\ PageIdle
  /\ variant = "A"
  /\ hz = [HzNone EXCEPT !.mode = "shim"]
  /\ \E n \in TagStates, r \in TagStates : doc = ShimDoc(n, r)

ShimUnchanged ==
  UNCHANGED <<variant, coBounds, bnd, ipc, onMap, chk, q, chain, places, lihtc,
              ov, unhandled, embedded, gv, hz>>

\* the shim is executed
ShimScript ==
  /\ hz.mode = "shim"
  /\ Len(doc.shims) < MaxLoads
  /\ doc' = loadNavigation([doc EXCEPT !.shims = Append(doc.shims, "start")],
                           Len(doc.shims) + 1)
  /\ ShimUnchanged

\* a script arrives and has run: s.onload = () => resolve()
ScriptLoaded(name) ==
  /\ hz.mode = "shim"
  /\ doc.scripts[name].st = "loading"
  /\ LET d1 == [doc EXCEPT !.scripts[name].st = "loaded"]
         i  == doc.scripts[name].owner
     IN  doc' = IF i = 0 THEN d1
                ELSE IF name = "nav" THEN loadResponsive(d1, i)
                ELSE [d1 EXCEPT !.shims[i] = "done"]
  /\ ShimUnchanged

\* a script does not arrive: s.onerror = () => reject(...), and
\* .catch(err => console.error(err))
ScriptError(name) ==
  /\ hz.mode = "shim"
  /\ doc.scripts[name].st = "loading"
  /\ LET d1 == [doc EXCEPT !.scripts[name].st = "failed"]
         i  == doc.scripts[name].owner
     IN  doc' = IF i = 0 THEN d1 ELSE [d1 EXCEPT !.shims[i] = "caught"]
  /\ ShimUnchanged

NextShim ==
  \/ ShimScript
  \/ \E name \in {"nav", "resp"} : ScriptLoaded(name)
  \/ \E name \in {"nav", "resp"} : ScriptError(name)

SpecShim == InitShim /\ [][NextShim]_vars

\* C22: a shim appends the tag of js/responsive-nav.js only when
\* js/navigation.js has finished loading, whatever script tags the document
\* held before; and when js/navigation.js has failed to load no shim has
\* appended the tag of js/responsive-nav.js.
C22_NavigationFirst ==
  /\ doc.scripts.resp.owner # 0 => doc.navAtInsert = "loaded"
  /\ doc.scripts.nav.st = "failed" => doc.scripts.resp.owner = 0

(* ------------------------------------------------------------------ *)
(* The FRED cards read from data/fred-data.json                       *)
(* ------------------------------------------------------------------ *)

\* Numbers are integers of hundredths: 3.70 is 370.  The value of an
\* observation is "num" (a number or a numeric string, n hundredths), "dot"
\* ("."), "null" (null or undefined), "empty" ("", which Number() reads as
\* 0) or "nan" (a string Number() reads as NaN); an entry of the list that is
\* itself null is "bad".
Val(k, n) == [k |-> k, n |-> n]

\* A series of data.series: "missing" (no such key, or null), "noobs" (an
\* object without observations), "notarray" (observations is a truthy value
\* that has no filter method), "list" (observations is the array obs).
Series(k, obs) == [k |-> k, obs |-> obs]

Missing == Series("missing", <<>>)

\* the text of a card: "init" what the page shows before run(), else a
\* format and the digits
Text(fmt, n) == [fmt |-> fmt, n |-> n]

InitText == Text("init", 0)

CardIds == {"statCpi", "statUnemp", "stat10y", "statStarts"}

\* const el = document.getElementById(id); if (el) el.textContent = txt
setText(cards, id, txt) ==
  IF id \in DOMAIN cards THEN [cards EXCEPT ![id] = txt] ELSE cards

\* o.value !== "." && o.value != null, then Number(o.value) and isFinite
Passes(v) == v.k \in {"num", "empty"}

NumberOfValue(v) == IF v.k = "empty" THEN 0 ELSE v.n

RECURSIVE Numbers(_)
\* (observations || []).filter(...).map(...).filter(isFinite) as numbers
Numbers(obs) ==
  IF obs = <<>> THEN <<>>
  ELSE (IF Passes(Head(obs)) THEN <<NumberOfValue(Head(obs))>> ELSE <<>>)
         \o Numbers(Tail(obs))

\* reading the observations throws a TypeError: the series is undefined or
\* null, observations has no filter method, or an entry is null
ReadThrows(s) ==
  \/ s.k \in {"missing", "notarray"}
  \/ s.k = "list" /\ \E i \in 1..Len(s.obs) : s.obs[i].k = "bad"

\* what a block of run() does: threw, or set (setText was called with text)
Block(threw, set, text) == [threw |-> threw, set |-> set, text |-> text]

NoUpdate == Block(FALSE, FALSE, InitText)

\* x.toFixed(1) of x hundredths (the values of the model are no ties)
ToFixed1(x) == (x + 5) \div 10

\* Math.round(x) of x hundredths
MathRound(x) == (x + 50) \div 100

\* the CPI block: if (obs.length >= 13) { yoy = (last / obs[length - 13] - 1)
\* * 100; setText("statCpi", yoy.toFixed(1) + "%") }
CpiBlock(s) ==
  IF ReadThrows(s) THEN Block(TRUE, FALSE, InitText)
  ELSE LET obs == Numbers(s.obs)
       IN  IF Len(obs) >= 13
           THEN LET last == obs[Len(obs)]
                    prev == obs[Len(obs) - 12]
                IN  IF prev = 0
                    THEN Block(FALSE, TRUE,
                               Text(IF last = 0 THEN "NaN%" ELSE "Infinity%", 0))
                    ELSE Block(FALSE, TRUE,
                               Text("pct1", (2000 * (last - prev) + prev)
                                              \div (2 * prev)))
           ELSE NoUpdate

\* latestObs(series): the last valid numeric value, or null
latestObs(s) ==
  LET obs == Numbers(s.obs)
  IN  IF Len(obs) > 0 THEN Val("num", obs[Len(obs)]) ELSE Val("null", 0)

\* if (last) setText("statUnemp", last.value.toFixed(1) + "%")
UnempBlock(s) ==
  IF ReadThrows(s) THEN Block(TRUE, FALSE, InitText)
  ELSE IF latestObs(s).k = "num"
       THEN Block(FALSE, TRUE, Text("pct1", ToFixed1(latestObs(s).n)))
       ELSE NoUpdate

\* if (last) setText("stat10y", last.value.toFixed(2) + "%")
TenYearBlock(s) ==
  IF ReadThrows(s) THEN Block(TRUE, FALSE, InitText)
  ELSE IF latestObs(s).k = "num"
       THEN Block(FALSE, TRUE, Text("pct2", latestObs(s).n))
       ELSE NoUpdate

\* units = Math.round(last.value) * 1000;
\* setText("statStarts", units >= 1000 ? (units / 1000).toFixed(0) + "k" : String(units))
StartsBlock(s) ==
  IF ReadThrows(s) THEN Block(TRUE, FALSE, InitText)
  ELSE IF latestObs(s).k = "num"
       THEN LET units == MathRound(latestObs(s).n) * 1000
            IN  Block(FALSE, TRUE,
                      IF units >= 1000 THEN Text("k", units \div 1000)
                      ELSE Text("units", units))
       ELSE NoUpdate

\* run() while it goes through its blocks: the cards, and whether an
\* exception has left run()
TryBlockNoCatch(r, id, b) ==
  IF r.thrown THEN r
  ELSE IF b.threw THEN [r EXCEPT !.thrown = TRUE]
  ELSE IF b.set THEN [r EXCEPT !.cards = setText(r.cards, id, b.text)]
  ELSE r

\* try { <block> } catch (e) { console.warn(...) }
TryBlock(r, id, b) ==
  IF r.thrown THEN r
  ELSE IF TryCatch(b.threw, FALSE) THEN [r EXCEPT !.thrown = TRUE]
  ELSE IF b.set /\ ~b.threw THEN [r EXCEPT !.cards = setText(r.cards, id, b.text)]
  ELSE r

\* What fetch("data/fred-data.json") gives: "net" fetch rejects, "http"
\* !res.ok, "json" res.json() rejects, "ok" the body parses: body "null" is
\* the JSON null, "noseries" a value without a series member, "object" one
\* whose series member is `series`.
FredResp(kind, body, series) == [kind |-> kind, body |-> body, series |-> series]

NoSeries == [n \in {"CPIAUCSL", "UNRATE", "DGS10", "HOUST"} |-> Missing]

\* try { fetch ...; if (!res.ok) throw ...; data = await res.json() } catch
\* (e) { console.warn(...); return }
LoadFails(resp) == resp.kind \in {"net", "http", "json"}

\* const s = data.series || {}
SeriesOfBody(resp) == IF resp.body = "object" THEN resp.series ELSE NoSeries

\* run() from the answer of fetch on; the value is the cards and whether
\* run() rejected
runResume(cards, resp) ==
  LET r0 == [cards |-> cards, thrown |-> FALSE]
  IN  IF LoadFails(resp) THEN r0
      ELSE IF resp.body = "null"
      THEN \* data.series of null: a TypeError outside every try block
           [r0 EXCEPT !.thrown = TRUE]
      ELSE LET s  == SeriesOfBody(resp)
               r1 == TryBlock(r0, "statCpi", CpiBlock(s.CPIAUCSL))
               r2 == TryBlock(r1, "statUnemp", UnempBlock(s.UNRATE))
               r3 == TryBlock(r2, "stat10y", TenYearBlock(s.DGS10))
           IN  TryBlock(r3, "statStarts", StartsBlock(s.HOUST))

\* The document of economic-dashboard.html: the four cards, run() ("idle"
\* not called, "wait" awaiting fetch, "done" returned, "rejected"), and the
\* answer run() received.
FredDoc(readyState) ==
  [page |-> "fred", readyState |-> readyState, st |-> "idle",
   cards |-> [c \in CardIds |-> InitText],
   resp |-> FredResp("none", "null", NoSeries)]

\* n observations first, first + step, ...
Level(n, first, step) == [i \in 1..n |-> Val("num", first + (i - 1) * step)]

\* the lists of observations of the cache
ObsLists ==
  {<<Val("dot", 0), Val("null", 0), Val("nan", 0)>>, <<Val("empty", 0)>>,
   <<Val("num", 49), Val("bad", 0)>>,
   Level(MaxObs - 2, 370, 10), Level(MaxObs - 1, 370, 10),
   Append(Level(MaxObs - 1, 0, 100), Val("dot", 0))}

SeriesSet ==
  {Missing, Series("noobs", <<>>), Series("notarray", <<>>)}
    \cup {Series("list", l) : l \in ObsLists}

FredResps ==
  {FredResp(k, "null", NoSeries) : k \in {"net", "http", "json"}}
    \cup {FredResp("ok", b, NoSeries) : b \in {"null", "noseries"}}
    \cup {FredResp("ok", "object",
                   [CPIAUCSL |-> c, UNRATE |-> u, DGS10 |-> t, HOUST |-> h]) :
            c \in SeriesSet, u \in SeriesSet, t \in SeriesSet, h \in SeriesSet}

InitFred ==
  /\ PageIdle
  /\ variant = "A"
  /\ hz = [HzNone EXCEPT !.mode = "fred"]
  /\ \E rs \in {"loading", "complete"} : doc = FredDoc(rs)

FredUnchanged ==
  UNCHANGED <<variant, coBounds, bnd, ipc, onMap, chk, q, chain, places, lihtc,
              ov, unhandled, embedded, gv, hz>>

\* the script is executed while the document is being parsed:
\* document.addEventListener("DOMContentLoaded", run)
FredScript ==
  /\ hz.mode = "fred"
  /\ doc.readyState = "loading"
  /\ doc.st = "idle"
  /\ doc' = [doc EXCEPT !.st = "listening"]
  /\ FredUnchanged

\* run() is called, by the script or by DOMContentLoaded, and awaits fetch
FredRun ==
  /\ hz.mode = "fred"
  /\ \/ doc.st = "idle" /\ doc.readyState # "loading"
     \/ doc.st = "listening"
  /\ doc' = [doc EXCEPT !.st = "wait", !.readyState = "interactive"]
  /\ FredUnchanged

\* fetch is answered and run() goes to its end
FredResponse(resp) ==
  /\ hz.mode = "fred"
  /\ doc.st = "wait"
  /\ LET r == runResume(doc.cards, resp)
     IN  doc' = [doc EXCEPT !.st = IF r.thrown THEN "rejected" ELSE "done",
                            !.cards = r.cards,
                            !.resp = resp]
  /\ FredUnchanged

NextFred ==
  \/ FredScript
  \/ FredRun
  \/ \E resp \in FredResps : FredResponse(resp)

SpecFred == InitFred /\ [][NextFred]_vars

\* the observations a card needs: thirteen for the CPI card, one for the others
Need(id) == IF id = "statCpi" THEN 13 ELSE 1

SeriesName(id) ==
  IF id = "statCpi" THEN "CPIAUCSL"
  ELSE IF id = "statUnemp" THEN "UNRATE"
  ELSE IF id = "stat10y" THEN "DGS10"
  ELSE "HOUST"

\* a series that is there and valid: an object whose observations, if any,
\* are a list of objects, with enough numeric values for its card
Usable(s, need) ==
  /\ s.k \in {"noobs", "list"}
  /\ \A i \in 1..Len(s.obs) : s.obs[i].k # "bad"
  /\ Cardinality({i \in 1..Len(s.obs) : s.obs[i].k \in {"num", "empty"}}) >= need

\* C23: after run(), when loading data/fred-data.json failed every card has
\* the text it had before; when the cache loaded, a card has the text it had
\* before exactly when its own series is missing or invalid, whatever the
\* other series are.
C23_CardsLeftOrUpdated ==
  (doc.page = "fred" /\ doc.st \in {"done", "rejected"}) =>
    IF LoadFails(doc.resp)
    THEN \A c \in CardIds : doc.cards[c] = InitText
    ELSE \A c \in CardIds :
           (doc.cards[c] = InitText) <=>
             ~Usable(SeriesOfBody(doc.resp)[SeriesName(c)], Need(c))

\* the cache loaded without CPIAUCSL and with a UNRATE whose observations are
\* no list: those two cards are as before, the other two are updated
C23_Witness ==
  /\ doc.page = "fred"
  /\ doc.st = "done"
  /\ doc.resp.kind = "ok"
  /\ doc.resp.body = "object"
  /\ doc.resp.series.CPIAUCSL = Missing
  /\ doc.resp.series.UNRATE.k = "notarray"
  /\ doc.cards["statCpi"] = InitText
  /\ doc.cards["statUnemp"] = InitText
  /\ doc.cards["stat10y"] = Text("pct2", 490)
  /\ doc.cards["statStarts"] = Text("k", 5)

(* ------------------------------------------------------------------ *)
(* How arcgisQuery settles for its callers (Spec)                     *)
(* ------------------------------------------------------------------ *)

\* every arcgisQuery call that loadPlaces, loadLIHTC and the chains have
\* awaited resolved, and the catch block in the loop of the chain was not
\* entered
C24_AllResolved ==
  /\ places.st \in {"fallback", "settled"} => places.outcome = "resolved"
  /\ lihtc.st = "settled" => lihtc.outcome = "resolved"
  /\ \A o \in Overlays : ~chain[o].caught

\* the places query gave no feature
PlacesEmpty == ~places.hasLayer \/ Count(places.layer) = 0

\* C24 (as stated): arcgisQuery never rejects, and the catch blocks of
\* loadPlaces, of loadLIHTC and of the chain are not entered when a page
\* request has failed.
C24_CatchNeverEntered ==
  /\ C24_AllResolved
  /\ places.failed => ~places.caught
  /\ lihtc.failed => ~lihtc.caught

\* C24 (amended): arcgisQuery never rejects, whatever the requests give, so
\* no catch block is entered by a rejection of it: the one in the loop of the
\* chain and those of copy A's loadPlaces and loadLIHTC are never entered;
\* those of copy B's loadPlaces and loadLIHTC are entered exactly when the
\* query resolved with no feature, which a failed first request makes it do.
C24_NeverRejects ==
  /\ C24_AllResolved
  /\ variant = "A" => ~places.caught /\ ~lihtc.caught
  /\ variant = "B" =>
       /\ places.caught <=> (places.st = "settled" /\ PlacesEmpty)
       /\ lihtc.caught <=> (lihtc.st = "settled" /\ lihtc.liveEmpty)
       /\ (places.failed \/ lihtc.failed) => (places.caught \/ lihtc.caught)

\* copy B: the request of the LIHTC query failed, arcgisQuery resolved with
\* an empty collection, and loadLIHTC threw on it and went through its catch
\* block to the embedded data
C24_Witness ==
  /\ variant = "B"
  /\ lihtc.st = "settled"
  /\ lihtc.failed
  /\ lihtc.outcome = "resolved"
  /\ lihtc.caught
  /\ lihtc.src = "fallback"

(* ------------------------------------------------------------------ *)
(* The overlays and their checkboxes (Spec)                           *)
(* ------------------------------------------------------------------ *)

\* C25: whenever no syncQCT / syncDDA call is suspended, the overlay is on
\* the map exactly when its layer has been loaded and its checkbox is
\* checked, whatever the order of change events and answers.
C25_OnMapIffLoadedAndChecked ==
  \A o \in Overlays :
    ~ov[o].waiting => ((o \in onMap) <=> (ov[o].hasLayer /\ chk[o]))

\* an overlay whose load was started by a checked box and whose layer arrived
\* from the service is loaded and off the map, its box being unchecked
C25_Witness ==
  \E o \in Overlays :
    /\ ov[o].hasLayer
    /\ ov[o].src = "api"
    /\ ~ov[o].waiting
    /\ ~chk[o]
    /\ o \notin onMap

\* C26: the load chain of an overlay is called at most once, when the loaded
\* flag is set; once it has ended with all sources exhausted no request of
\* that overlay is in flight any more, whatever the checkbox does.
C26_ChainStartedOnce ==
  \A o \in Overlays :
    /\ ov[o].starts <= 1
    /\ ov[o].loaded <=> ov[o].starts = 1
    /\ chain[o].st = "idle" <=> ov[o].starts = 0
    /\ chain[o].st = "exhausted" => q[o].st = "idle"

\* copy A: the chain of an overlay ended exhausted, its box is checked, the
\* layer is null and the chain was called once
C26_Witness ==
  \E o \in Overlays :
    /\ variant = "A"
    /\ chain[o].st = "exhausted"
    /\ chk[o]
    /\ ~ov[o].hasLayer
    /\ ov[o].loaded
    /\ ov[o].starts = 1
====
